---- MODULE Spec2Model ----
(***************************************************************************)
(* Model of apache_beam/runners/common.py: the PerWindowInvoker of a       *)
(* splittable DoFn (invoke_process, _should_process_window_for_sdf,        *)
(* _invoke_process_per_window, _try_split, try_split,                      *)
(* current_element_progress) run by one processing thread, with one        *)
(* concurrent split/progress thread (Spec, FairSpec); the DoFnRunner entry  *)
(* points with their exception annotation and the scoped resources of the  *)
(* invoker's lifecycle methods (RunnerSpec); the window explosion, key and  *)
(* state handling and output routing of the two invokers (InvokerSpec).    *)
(*                                                                         *)
(* Windows of an element are identified by their 0-based position in       *)
(* windowed_value.windows; a slice windows[a:b] is the pair (from, to).    *)
(* A split fraction is a rational <<numerator, denominator>>.              *)
(***************************************************************************)
EXTENDS Integers, Sequences, FiniteSets, TLC

\* ------------------------------------------------------------- bounds
MaxWindows == 3
MaxWork == 1
MaxRunners == 2
MaxContexts == 1
MaxResults == 2
MaxParams == 2
MaxSlots == 2

\* ------------------------------------------------------------- values
\* Python's None for the integer-valued fields (the window indices).
None == -1
\* Python's None for the object-valued fields.
NoneObj == [none |-> TRUE]
\* The answers restriction_size may give: one negative, one non-negative.
SizeValues == {-1, 0}
\* The split fractions tried: 0, 1/2 and 1.
Fractions == {<<0, 1>>, <<1, 2>>, <<1, 1>>}
NoResult == [kind |-> "pending"]

Min(a, b) == IF a < b THEN a ELSE b
Max(a, b) == IF a > b THEN a ELSE b

\* Python 3 int(round(n / d)) for n >= 0, d > 0: round half to even.
RoundHalfEven(n, d) ==
  LET q == n \div d
      r == n % d
  IN IF 2 * r < d THEN q
     ELSE IF 2 * r > d THEN q + 1
     ELSE IF q % 2 = 0 THEN q ELSE q + 1

\* RestrictionProgress.total_work
total_work(progress) == progress.completed + progress.remaining

\* PerWindowInvoker._scale_progress
_scale_progress(progress, window_index, stop_window_index) ==
  [completed |-> window_index * total_work(progress) + progress.completed,
   remaining |-> (stop_window_index - (window_index + 1)) * total_work(progress)
                   + progress.remaining]

\* The outcome "an exception of this type propagates out of _try_split".
Raise(type, size_calls, asked) ==
  [kind |-> type, primaries |-> <<>>, residuals |-> <<>>, new_stop |-> None,
   asked |-> asked, tfrac |-> <<0, 1>>, size_calls |-> size_calls]

\* The estimator state the element started processing with.
InitialEstimatorState == 0

\* A size accepted by the "Expected size >= 0" checks.
SizeUnchecked(size) == TRUE
SizeOk(size) == size >= 0

\* A whole-window split that keeps its primary whatever to_index is.
WholeWindowSplitUnguarded(to_index, from_index, stop_window_index, size, watermark_estimator_state) ==
  [error |-> ~SizeOk(size),
   primary |-> <<[from |-> 0, to |-> to_index, whole |-> TRUE,
                  size |-> size, est |-> watermark_estimator_state]>>,
   residual |-> IF from_index < stop_window_index
                THEN <<[from |-> from_index, to |-> stop_window_index,
                        whole |-> TRUE, size |-> size,
                        est |-> watermark_estimator_state, wm |-> None]>>
                ELSE <<>>]

\* _try_split.compute_whole_window_split: the primary over windows[:to_index]
\* and the residual over windows[from_index:stop_window_index], each present
\* only when its slice bound allows it; the residual carries no watermark.
compute_whole_window_split(to_index, from_index, stop_window_index, size, watermark_estimator_state) ==
  IF ~SizeOk(size)
  THEN [error |-> TRUE, primary |-> <<>>, residual |-> <<>>]
  ELSE [error |-> FALSE,
        primary |-> IF to_index > 0
                    THEN <<[from |-> 0, to |-> to_index, whole |-> TRUE,
                            size |-> size, est |-> watermark_estimator_state]>>
                    ELSE <<>>,
        residual |-> IF from_index < stop_window_index
                     THEN <<[from |-> from_index, to |-> stop_window_index,
                             whole |-> TRUE, size |-> size,
                             est |-> watermark_estimator_state, wm |-> None]>>
                     ELSE <<>>]

\* The "return ([primary], [residual], new_stop_window_index)" of a split at a
\* window boundary, with the two asserts that precede it.
WholeWindowResult(new_stop_window_index, stop_window_index, size, watermark_estimator_state, asked, tfrac, calls) ==
  LET w == compute_whole_window_split(new_stop_window_index, new_stop_window_index,
                                      stop_window_index, size,
                                      watermark_estimator_state)
  IN IF w.error THEN Raise("ValueError", calls + 1, asked)
     ELSE IF w.primary = <<>> \/ w.residual = <<>>
          THEN Raise("AssertionError", calls + 1, asked)
          ELSE [kind |-> "split", primaries |-> w.primary, residuals |-> w.residual,
                new_stop |-> new_stop_window_index, asked |-> asked, tfrac |-> tfrac,
                size_calls |-> calls + 1]

\* A _try_split that asks the tracker to split and drops its answer.
SplitCurrentDiscarded(tfrac, new_stop_window_index, window_index, stop_window_index, windowed_value, watermark_estimator_state, tracker_split, current_watermark, current_estimator_state, sizes) ==
  [kind |-> "none", primaries |-> <<>>, residuals |-> <<>>, new_stop |-> None,
   asked |-> TRUE, tfrac |-> tfrac, size_calls |-> 0]

\* A packaging that gives every split of the current restriction to the
\* first window alone and answers a declined split with an empty one.
SplitCurrentFirstWindow(tfrac, new_stop_window_index, window_index, stop_window_index, windowed_value, watermark_estimator_state, tracker_split, current_watermark, current_estimator_state, sizes) ==
  [kind |-> "split",
   primaries |-> IF tracker_split
                 THEN <<[from |-> 0, to |-> 1, whole |-> FALSE, size |-> sizes.primary,
                         est |-> watermark_estimator_state]>>
                 ELSE <<>>,
   residuals |-> IF tracker_split
                 THEN <<[from |-> 0, to |-> 1, whole |-> FALSE, size |-> sizes.residual,
                         est |-> current_estimator_state, wm |-> current_watermark]>>
                 ELSE <<>>,
   new_stop |-> new_stop_window_index, asked |-> TRUE, tfrac |-> tfrac,
   size_calls |-> IF tracker_split THEN 2 ELSE 0]

\* The part of _try_split from the watermark snapshot on: ask the tracker to
\* split at tfrac, size and package the result, or fall back to a window
\* boundary.
SplitCurrent(tfrac, new_stop_window_index, window_index, stop_window_index, windowed_value, watermark_estimator_state, tracker_split, current_watermark, current_estimator_state, sizes) ==
  LET window_observing == window_index # None IN
  IF tracker_split
  THEN IF ~SizeOk(sizes.primary) THEN Raise("ValueError", 1, TRUE)
       ELSE IF ~SizeOk(sizes.residual) THEN Raise("ValueError", 2, TRUE)
       ELSE
         LET from == IF window_observing THEN window_index ELSE 0
             to == IF window_observing THEN window_index + 1
                   ELSE windowed_value.windows
             prim == [from |-> from, to |-> to, whole |-> FALSE,
                      size |-> sizes.primary, est |-> watermark_estimator_state]
             resid == [from |-> from, to |-> to, whole |-> FALSE,
                       size |-> sizes.residual, est |-> current_estimator_state,
                       wm |-> current_watermark]
         IN IF window_observing
            THEN IF new_stop_window_index # window_index + 1
                 THEN Raise("AssertionError", 2, TRUE)
                 ELSE LET w == compute_whole_window_split(
                                 window_index, window_index + 1, stop_window_index,
                                 sizes.whole, watermark_estimator_state)
                      IN IF w.error THEN Raise("ValueError", 3, TRUE)
                         ELSE [kind |-> "split",
                               primaries |-> <<prim>> \o w.primary,
                               residuals |-> <<resid>> \o w.residual,
                               new_stop |-> new_stop_window_index,
                               asked |-> TRUE, tfrac |-> tfrac, size_calls |-> 3]
            ELSE [kind |-> "split", primaries |-> <<prim>>, residuals |-> <<resid>>,
                  new_stop |-> new_stop_window_index, asked |-> TRUE,
                  tfrac |-> tfrac, size_calls |-> 2]
  ELSE IF new_stop_window_index # None /\ new_stop_window_index # 0
          /\ new_stop_window_index # stop_window_index
       THEN WholeWindowResult(new_stop_window_index, stop_window_index, sizes.whole,
                              watermark_estimator_state, TRUE, tfrac, 0)
       ELSE [kind |-> "none", primaries |-> <<>>, residuals |-> <<>>,
             new_stop |-> None, asked |-> TRUE, tfrac |-> tfrac, size_calls |-> 0]

\* PerWindowInvoker._try_split.  tracker_progress is what the tracker's
\* current_progress() returns (NoneObj when unavailable), tracker_split whether
\* the tracker's try_split returns a split, sizes the answers of the
\* restriction provider's restriction_size.
_try_split(fraction, window_index, stop_window_index, windowed_value, watermark_estimator_state, tracker_progress, tracker_split, current_watermark, current_estimator_state, sizes) ==
  LET window_observing == window_index # None IN
  IF window_observing /\ stop_window_index = None
  THEN Raise("TypeError", 0, FALSE)
  ELSE IF window_observing /\ window_index # stop_window_index - 1
  THEN LET progress == IF tracker_progress = NoneObj
                       THEN [completed |-> 0, remaining |-> 1]
                       ELSE tracker_progress
           scaled_progress == _scale_progress(progress, window_index,
                                              stop_window_index)
       IN IF scaled_progress.remaining * fraction[1] >= progress.remaining * fraction[2]
          THEN IF total_work(progress) = 0
               THEN Raise("ZeroDivisionError", 0, FALSE)
               ELSE WholeWindowResult(
                      Min(stop_window_index - 1,
                          window_index + Max(1, RoundHalfEven(
                            progress.completed * fraction[2]
                              + scaled_progress.remaining * fraction[1],
                            total_work(progress) * fraction[2]))),
                      stop_window_index, sizes.whole, watermark_estimator_state,
                      FALSE, <<0, 1>>, 0)
          ELSE SplitCurrent(<<scaled_progress.remaining * fraction[1],
                              fraction[2] * progress.remaining>>,
                            window_index + 1, window_index, stop_window_index,
                            windowed_value, watermark_estimator_state,
                            tracker_split, current_watermark,
                            current_estimator_state, sizes)
  ELSE SplitCurrent(fraction, stop_window_index, window_index,
                    stop_window_index, windowed_value, watermark_estimator_state,
                    tracker_split, current_watermark, current_estimator_state,
                    sizes)

\* ------------------------------------------------------------- state
VARIABLES
  is_splittable,                   \* PerWindowInvoker.is_splittable
  has_windowed_inputs,             \* PerWindowInvoker.has_windowed_inputs
  splitting_lock,                  \* who holds it: "free", "proc" or "split"
  current_windowed_value,          \* the fields try_split reads
  restriction,
  watermark_estimator_state,
  threadsafe_restriction_tracker,
  threadsafe_watermark_estimator,
  current_window_index,
  stop_window_index,
  proc_pc,                         \* the processing thread's position
  windowed_value,                  \* invoke_process's argument
  window_i,                        \* the loop variable i of invoke_process
  residuals,                       \* invoke_process's local list
  calls,                           \* windows the user function was invoked for
  routed,                          \* an output of this element reached a receiver
  outcome,                         \* how invoke_process ends
  seen_element,                    \* invoke_process has been called before
  deferred_seen,                   \* a window's tracker reported a deferred status
  split_pc,                        \* the split/progress thread's position
  split_local,                     \* its local variables
  split_ctx,                       \* what the processing thread was doing when
                                   \* the call read the invoker's state
  split_result,                    \* what its call returned or raised
  whole_returned                   \* the whole-window residuals try_split has
                                   \* returned for the element in process

configVars == <<is_splittable, has_windowed_inputs>>
sharedVars == <<current_windowed_value, restriction, watermark_estimator_state, threadsafe_restriction_tracker, threadsafe_watermark_estimator, current_window_index, stop_window_index>>
procVars == <<proc_pc, windowed_value, window_i, residuals, calls, routed, outcome, seen_element, deferred_seen>>
splitVars == <<split_pc, split_local, split_ctx, split_result, whole_returned>>

\* The DoFnRunner bundle lifecycle (RunnerSpec).
VARIABLES
  step_name,                       \* DoFnRunner.step_name of each runner of the chain
  frames,                          \* the entry-point calls in progress, outermost first
  exn,                             \* the exception propagating, if any
  delivered,                       \* what the outermost caller got from its call
  phase,                           \* where the harness is in the bundle lifecycle
  _setup_context_values,           \* DoFnInvoker._setup_context_values (their number)
  _bundle_context_values,          \* DoFnInvoker._bundle_context_values (their number)
  setup_open,                      \* setup-scoped resources entered and not exited
  bundle_open                      \* bundle-scoped resources entered and not exited

runnerVars == <<step_name, frames, exn, delivered, phase, _setup_context_values, _bundle_context_values, setup_open, bundle_open>>

\* One invoker processing elements and batches (InvokerSpec).
VARIABLES
  fn,                              \* the DoFn's signature
  invoker,                         \* "SimpleInvoker" or "PerWindowInvoker"
  inv_pc,                          \* idle, calling, done
  inv_input,                       \* the windowed element or batch being processed
  inv_plan,                        \* the inputs of the user-function calls still to make
  inv_calls,                       \* what each user-function call made was given
  inv_lookups,                     \* the get_state lookups made
  inv_out,                         \* the windowed values written to receivers
  inv_events,                      \* the calls made on the estimator and the receivers
  inv_error                        \* the exception that ended invoke_process

invokerVars == <<fn, invoker, inv_pc, inv_input, inv_plan, inv_calls, inv_lookups, inv_out, inv_events, inv_error>>

\* A DoFn on its way from its signature to a runner (SignatureSpec).
VARIABLES
  sig_fn,                          \* the defaults its process and process_batch declare
  sig_pc,                          \* new, rejected, built, runner
  sig_error,                       \* the exception DoFnSignature(fn) raised
  sig_batch_calls                  \* whether its process_batch was called

signatureVars == <<sig_fn, sig_pc, sig_error, sig_batch_calls>>

\* One call of the static method PerWindowInvoker._try_split (TrySplitSpec).
VARIABLES
  ts_args,                         \* its arguments and its collaborators' answers
  ts_result                        \* what it returned or raised

trySplitVars == <<ts_args, ts_result>>

\* The arguments one PerWindowInvoker gives the process method (ArgsSpec).
VARIABLES
  arg_cfg,                         \* what __init__ was given: the template, the flags
  args_for_process,                \* PerWindowInvoker.args_for_process
  kwargs_for_process,              \* PerWindowInvoker.kwargs_for_process
  has_cached_window_args,          \* PerWindowInvoker.has_cached_window_args
  arg_call,                        \* the input of the last call
  arg_given                        \* what the process method was called with

argsVars == <<arg_cfg, args_for_process, kwargs_for_process, has_cached_window_args, arg_call, arg_given>>

\* The results of one call on their way to the receivers (OutputsSpec).
VARIABLES
  out_mode,                        \* "process" or "finish_bundle"
  out_results,                     \* what the user function produces, in order
  out_estimator,                   \* a watermark estimator was handed over
  out_next,                        \* the position of the next result to take
  out_events,                      \* the calls made on the estimator and the receivers
  out_error,                       \* the exception that ended the loop
  out_pc                           \* idle, looping, done, failed

outputsVars == <<out_mode, out_results, out_estimator, out_next, out_events, out_error, out_pc>>
restVars == <<runnerVars, invokerVars, signatureVars, trySplitVars, argsVars, outputsVars>>
vars == <<configVars, splitting_lock, sharedVars, procVars, splitVars, restVars>>

notRunnerVars == <<configVars, splitting_lock, sharedVars, procVars, splitVars, invokerVars, signatureVars, trySplitVars, argsVars, outputsVars>>
notInvokerVars == <<configVars, splitting_lock, sharedVars, procVars, splitVars, runnerVars, signatureVars, trySplitVars, argsVars, outputsVars>>
notSignatureVars == <<configVars, splitting_lock, sharedVars, procVars, splitVars, runnerVars, invokerVars, trySplitVars, argsVars, outputsVars>>
notTrySplitVars == <<configVars, splitting_lock, sharedVars, procVars, splitVars, runnerVars, invokerVars, signatureVars, argsVars, outputsVars>>
notArgsVars == <<configVars, splitting_lock, sharedVars, procVars, splitVars, runnerVars, invokerVars, signatureVars, trySplitVars, outputsVars>>
notOutputsVars == <<configVars, splitting_lock, sharedVars, procVars, splitVars, runnerVars, invokerVars, signatureVars, trySplitVars, argsVars>>

NoDelivery == [kind |-> "none"]

\* No runner call is in progress and none was made.
RunnerIdle ==
  /\ step_name = [k \in 1..MaxRunners |-> None]
  /\ frames = <<>>
  /\ exn = NoneObj
  /\ delivered = NoDelivery
  /\ phase = "new"
  /\ _setup_context_values = None
  /\ _bundle_context_values = None
  /\ setup_open = 0
  /\ bundle_open = 0

\* No invoker is processing anything.
InvokerIdle ==
  /\ fn = NoneObj
  /\ invoker = "PerWindowInvoker"
  /\ inv_pc = "idle"
  /\ inv_input = NoneObj
  /\ inv_plan = <<>>
  /\ inv_calls = <<>>
  /\ inv_lookups = <<>>
  /\ inv_out = <<>>
  /\ inv_events = <<>>
  /\ inv_error = "none"

\* No DoFn is being given a signature.
SignatureIdle ==
  /\ sig_fn = NoneObj
  /\ sig_pc = "new"
  /\ sig_error = "none"
  /\ sig_batch_calls = FALSE

\* No call of _try_split on its own is being looked at.
TrySplitIdle ==
  /\ ts_args = NoneObj
  /\ ts_result = NoResult

\* No invoker is binding arguments.
ArgsIdle ==
  /\ arg_cfg = NoneObj
  /\ args_for_process = <<>>
  /\ kwargs_for_process = {}
  /\ has_cached_window_args = FALSE
  /\ arg_call = NoneObj
  /\ arg_given = NoneObj

\* No results are being routed.
OutputsIdle ==
  /\ out_mode = "none"
  /\ out_results = <<>>
  /\ out_estimator = FALSE
  /\ out_next = 1
  /\ out_events = <<>>
  /\ out_error = "none"
  /\ out_pc = "idle"

NoLocal == [op |-> "none"]
NoCtx == [inflight |-> FALSE, beyond |-> FALSE, within |-> FALSE, single |-> FALSE, declined |-> FALSE, window |-> None]

\* PerWindowInvoker.__init__: nothing stored, no index, the lock free.
PerWindowInit ==
  /\ is_splittable \in BOOLEAN
  /\ has_windowed_inputs \in BOOLEAN
  /\ splitting_lock = "free"
  /\ current_windowed_value = NoneObj
  /\ restriction = None
  /\ watermark_estimator_state = None
  /\ threadsafe_restriction_tracker = NoneObj
  /\ threadsafe_watermark_estimator = NoneObj
  /\ current_window_index = None
  /\ stop_window_index = None
  /\ proc_pc = "idle"
  /\ windowed_value = NoneObj
  /\ window_i = None
  /\ residuals = <<>>
  /\ calls = <<>>
  /\ routed = FALSE
  /\ outcome = "none"
  /\ seen_element = FALSE
  /\ deferred_seen = FALSE
  /\ split_pc = "idle"
  /\ split_local = NoLocal
  /\ split_ctx = NoCtx
  /\ split_result = NoResult
  /\ whole_returned = <<>>

Init == PerWindowInit /\ RunnerIdle /\ InvokerIdle /\ SignatureIdle /\ TrySplitIdle /\ ArgsIdle /\ OutputsIdle

\* ------------------------------------------------- the processing thread
\* An element is in flight: invoke_process has been entered and has not ended.
InFlight == proc_pc \notin {"idle", "done"}

\* "has_windowed_inputs and len(windowed_value.windows) > 1": the element is
\* processed window by window.
PerWindowLoop == has_windowed_inputs /\ windowed_value.windows > 1

\* current_element_progress keeps a reference to the tracker object it found
\* installed: while that object is the installed one (attached), a change made
\* to it is seen through both references; once another tracker is installed or
\* the field is cleared, the object no longer changes.
MutateTracker(t) ==
  /\ threadsafe_restriction_tracker' = t
  /\ split_local' =
       IF split_pc = "pg_read" /\ split_local.attached
       THEN [split_local EXCEPT !.tracker = t]
       ELSE split_local

Detach ==
  split_local' =
    IF split_pc = "pg_read" THEN [split_local EXCEPT !.attached = FALSE]
    ELSE split_local

\* invoke_process is entered with an element of 1..MaxWindows windows.
InvokeProcess ==
  /\ proc_pc = "idle"
  /\ \E n \in 1..MaxWindows : windowed_value' = [windows |-> n]
  /\ seen_element' = TRUE
  /\ deferred_seen' = FALSE
  /\ window_i' = 0
  /\ residuals' = <<>>
  /\ calls' = IF is_splittable THEN <<>> ELSE <<0>>
  /\ routed' = FALSE
  /\ outcome' = "running"
  /\ proc_pc' = IF is_splittable THEN "store_wait" ELSE "user_fn"
  /\ whole_returned' = <<>>
  /\ UNCHANGED <<restVars, configVars, splitting_lock, sharedVars, split_pc, split_local, split_ctx, split_result>>

\* The processing thread entering its locked blocks without the lock.
ProcSkipLock ==
  /\ proc_pc \in {"store_wait", "sp_wait", "fin_wait"}
  /\ proc_pc' = CASE proc_pc = "store_wait" -> "store_cs"
                  [] proc_pc = "sp_wait" -> "sp_cs"
                  [] proc_pc = "fin_wait" -> "fin_cs"
  /\ UNCHANGED <<restVars, configVars, splitting_lock, sharedVars, windowed_value, window_i, residuals, calls, routed, outcome, seen_element, deferred_seen, splitVars>>

\* "with self.splitting_lock:" on the processing thread.  Before the second
\* one, _should_process_window_for_sdf has created the window's tracker and
\* estimator.
ProcAcquire ==
  /\ proc_pc \in {"store_wait", "sp_wait", "fin_wait"}
  /\ splitting_lock = "free"
  /\ splitting_lock' = "proc"
  /\ proc_pc' = CASE proc_pc = "store_wait" -> "store_cs"
                  [] proc_pc = "sp_wait" -> "sp_cs"
                  [] proc_pc = "fin_wait" -> "fin_cs"
  /\ UNCHANGED <<restVars, configVars, sharedVars, windowed_value, window_i, residuals, calls, routed, outcome, seen_element, deferred_seen, splitVars>>

\* The element, its restriction and estimator state are stored under the lock.
StoreElement ==
  /\ proc_pc = "store_cs"
  /\ current_windowed_value' = windowed_value
  /\ restriction' = 0
  /\ watermark_estimator_state' = 0
  /\ splitting_lock' = "free"
  /\ proc_pc' = "sp_wait"
  /\ UNCHANGED <<restVars, configVars, threadsafe_restriction_tracker, threadsafe_watermark_estimator, current_window_index, stop_window_index, windowed_value, window_i, residuals, calls, routed, outcome, seen_element, deferred_seen, splitVars>>

\* The exception path: leave the try block for the finally block.
Fail(why) ==
  /\ proc_pc' = "fin_wait"
  /\ outcome' = why

\* invoke_create_tracker or invoke_create_watermark_estimator raises.
CreateRaise ==
  /\ proc_pc = "sp_wait"
  /\ Fail("create_raised")
  /\ UNCHANGED <<restVars, configVars, splitting_lock, sharedVars, windowed_value, window_i, residuals, calls, routed, seen_element, deferred_seen, splitVars>>

\* A tracker nothing was deferred on: no deferred restriction, no timestamp.
NoDeferred == [from |-> None, to |-> None, timestamp |-> None]

\* The window_index argument of _should_process_window_for_sdf.
WindowIndexArg == IF PerWindowLoop THEN window_i ELSE None

\* "if window_index:" of _should_process_window_for_sdf: None and 0 are falsy.
IndexGuard(window_index) == window_index # None /\ window_index # 0

\* The locked part of _should_process_window_for_sdf; release tells whether
\* the lock is let go at its end.
InstallBody(release) ==
  LET window_index == WindowIndexArg
      guard == IndexGuard(window_index)
      stop == IF guard /\ window_index = 0 THEN windowed_value.windows
              ELSE stop_window_index
  IN
  /\ proc_pc = "sp_cs"
  /\ current_window_index' = IF guard THEN window_index ELSE current_window_index
  /\ stop_window_index' = stop
  /\ splitting_lock' = IF release THEN "free" ELSE splitting_lock
  /\ IF guard /\ window_index = stop
     THEN /\ proc_pc' = "fin_wait"
          /\ outcome' = "stopped"
          /\ UNCHANGED <<threadsafe_restriction_tracker, threadsafe_watermark_estimator, calls, split_local>>
     ELSE /\ threadsafe_restriction_tracker' =
               [win |-> window_i, completed |-> 0, total |-> MaxWork,
                deferred |-> FALSE, rest |-> NoDeferred]
          /\ Detach
          /\ threadsafe_watermark_estimator' = [wm |-> 0, win |-> window_i]
          /\ proc_pc' = "user_fn"
          /\ calls' = Append(calls, window_i)
          /\ UNCHANGED outcome
  /\ UNCHANGED <<restVars, configVars, current_windowed_value, restriction, watermark_estimator_state, windowed_value, window_i, residuals, routed, seen_element, deferred_seen, split_pc, split_ctx, split_result, whole_returned>>

InstallKeepLock == InstallBody(FALSE)
InstallTracker == InstallBody(TRUE)

\* The user's process function is running and its results are being routed
\* (handle_process_outputs consumes them as they are produced).
InUserFn == proc_pc = "user_fn"

\* tracker.try_claim inside the user function: one more unit of work claimed.
Claim ==
  /\ InUserFn
  /\ is_splittable
  /\ threadsafe_restriction_tracker.completed < threadsafe_restriction_tracker.total
  /\ MutateTracker([threadsafe_restriction_tracker EXCEPT !.completed = threadsafe_restriction_tracker.completed + 1])
  /\ UNCHANGED <<restVars, configVars, splitting_lock, current_windowed_value, restriction, watermark_estimator_state, threadsafe_watermark_estimator, current_window_index, stop_window_index, procVars, split_pc, split_ctx, split_result, whole_returned>>

\* The timestamp the user function gives to defer_remainder.
DeferTime == 3

\* tracker.defer_remainder inside the user function: the unclaimed rest of the
\* restriction is set aside and reported by deferred_status.
Defer ==
  /\ InUserFn
  /\ is_splittable
  /\ ~threadsafe_restriction_tracker.deferred
  /\ threadsafe_restriction_tracker.completed < threadsafe_restriction_tracker.total
  /\ MutateTracker([threadsafe_restriction_tracker EXCEPT
         !.deferred = TRUE,
         !.total = threadsafe_restriction_tracker.completed,
         !.rest = [from |-> threadsafe_restriction_tracker.completed,
                   to |-> threadsafe_restriction_tracker.total,
                   timestamp |-> DeferTime]])
  /\ UNCHANGED <<restVars, configVars, splitting_lock, current_windowed_value, restriction, watermark_estimator_state, threadsafe_watermark_estimator, current_window_index, stop_window_index, procVars, split_pc, split_ctx, split_result, whole_returned>>

\* A result of the user function is routed: the estimator observes its
\* timestamp (its watermark has then advanced) and a receiver gets it.
Emit ==
  /\ InUserFn
  /\ ~routed \/ (is_splittable /\ threadsafe_watermark_estimator.wm = 0)
  /\ routed' = TRUE
  /\ threadsafe_watermark_estimator' =
       IF threadsafe_watermark_estimator = NoneObj THEN NoneObj
       ELSE [threadsafe_watermark_estimator EXCEPT !.wm = 1]
  /\ UNCHANGED <<restVars, configVars, splitting_lock, current_windowed_value, restriction, watermark_estimator_state, threadsafe_restriction_tracker, current_window_index, stop_window_index, proc_pc, windowed_value, window_i, residuals, calls, outcome, seen_element, deferred_seen, splitVars>>

\* "for i, w in enumerate(windowed_value.windows)": the next index.
SkipIndex(i) == i + 2
next_index(i) == i + 1

\* A window's call ended without an exception: the loop goes on to the next
\* window, or invoke_process leaves the loop (and, when splittable, the try).
AfterWindow ==
  IF PerWindowLoop /\ next_index(window_i) < windowed_value.windows
  THEN /\ window_i' = next_index(window_i)
       /\ proc_pc' = IF is_splittable THEN "sp_wait" ELSE "user_fn"
       /\ calls' = IF is_splittable THEN calls
                   ELSE Append(calls, next_index(window_i))
       /\ UNCHANGED outcome
  ELSE /\ proc_pc' = IF is_splittable THEN "fin_wait" ELSE "done"
       /\ outcome' = "ok"
       /\ UNCHANGED <<window_i, calls>>

\* The user function returned and its last result was routed.
UserReturn ==
  /\ InUserFn
  /\ IF is_splittable
     THEN /\ proc_pc' = "check_done"
          /\ UNCHANGED <<window_i, calls, outcome>>
     ELSE AfterWindow
  /\ UNCHANGED <<restVars, configVars, splitting_lock, sharedVars, windowed_value, residuals, routed, seen_element, deferred_seen, splitVars>>

\* The user function (or the routing of one of its results) raised.
UserRaise ==
  /\ InUserFn
  /\ IF is_splittable
     THEN Fail("user_raised")
     ELSE /\ proc_pc' = "done"
          /\ outcome' = "user_raised"
  /\ UNCHANGED <<restVars, configVars, splitting_lock, sharedVars, windowed_value, window_i, residuals, calls, routed, seen_element, deferred_seen, splitVars>>

\* "if deferred_status:" - the tracker's deferred_status() is None unless the
\* user function deferred the remainder.
DeferredStatusAlways(t) == TRUE
DeferredStatus(t) == t.deferred

\* check_done() and deferred_status() after the user function returned.
CheckDone ==
  /\ proc_pc = "check_done"
  /\ IF threadsafe_restriction_tracker.completed < threadsafe_restriction_tracker.total
     THEN /\ Fail("check_done_raised")
          /\ UNCHANGED <<window_i, calls, deferred_seen>>
     ELSE /\ deferred_seen' = (deferred_seen \/ threadsafe_restriction_tracker.deferred)
          /\ IF DeferredStatus(threadsafe_restriction_tracker)
             THEN /\ proc_pc' = "sizing"
                  /\ UNCHANGED <<window_i, calls, outcome>>
             ELSE AfterWindow
  /\ UNCHANGED <<restVars, configVars, splitting_lock, sharedVars, windowed_value, residuals, routed, seen_element, splitVars>>

\* restriction_size of the deferred restriction returned: a negative size
\* raises, any other is packaged with the watermark and estimator state read
\* now.
DeferredSized ==
  /\ proc_pc = "sizing"
  /\ \E size \in SizeValues :
       IF ~SizeOk(size)
       THEN /\ Fail("negative_size")
            /\ UNCHANGED <<window_i, calls, residuals>>
       ELSE /\ residuals' = Append(residuals,
                 [from |-> IF PerWindowLoop THEN window_i ELSE 0,
                  to |-> IF PerWindowLoop THEN window_i + 1
                         ELSE windowed_value.windows,
                  whole |-> FALSE, size |-> size,
                  restriction |-> threadsafe_restriction_tracker.rest,
                  est |-> threadsafe_watermark_estimator.wm,
                  wm |-> threadsafe_watermark_estimator.wm,
                  deferred_timestamp |-> threadsafe_restriction_tracker.rest.timestamp])
            /\ AfterWindow
  /\ UNCHANGED <<restVars, configVars, splitting_lock, sharedVars, windowed_value, routed, seen_element, deferred_seen, splitVars>>

\* What the finally block of invoke_process leaves in each field.
FinallyObjKept(x) == x
FinallyObj(x) == NoneObj
FinallyIntKept(x) == x
FinallyInt(x) == None

\* The finally block of invoke_process, under the lock; then invoke_process
\* returns its residuals or lets the exception propagate.
FinallyClear ==
  /\ proc_pc = "fin_cs"
  /\ current_windowed_value' = FinallyObj(current_windowed_value)
  /\ restriction' = FinallyInt(restriction)
  /\ watermark_estimator_state' = FinallyInt(watermark_estimator_state)
  /\ current_window_index' = FinallyInt(current_window_index)
  /\ threadsafe_restriction_tracker' = FinallyObj(threadsafe_restriction_tracker)
  /\ threadsafe_watermark_estimator' = FinallyObj(threadsafe_watermark_estimator)
  /\ splitting_lock' = "free"
  /\ proc_pc' = "done"
  /\ residuals' = IF outcome \in {"ok", "stopped"} THEN residuals ELSE <<>>
  /\ Detach
  /\ UNCHANGED <<restVars, configVars, stop_window_index, windowed_value, window_i, calls, routed, outcome, seen_element, deferred_seen, split_pc, split_ctx, split_result, whole_returned>>

\* The caller of invoke_process has its residuals or its exception.
ProcReturn ==
  /\ proc_pc = "done"
  /\ proc_pc' = "idle"
  /\ windowed_value' = NoneObj
  /\ window_i' = None
  /\ residuals' = <<>>
  /\ calls' = <<>>
  /\ routed' = FALSE
  /\ outcome' = "none"
  /\ deferred_seen' = FALSE
  /\ UNCHANGED <<restVars, configVars, splitting_lock, sharedVars, seen_element, splitVars>>

ProcNext ==
  \/ InvokeProcess
  \/ ProcAcquire
  \/ StoreElement
  \/ CreateRaise
  \/ InstallTracker
  \/ Claim
  \/ Defer
  \/ Emit
  \/ UserReturn
  \/ UserRaise
  \/ CheckDone
  \/ DeferredSized
  \/ FinallyClear
  \/ ProcReturn

\* ------------------------------------------- the split/progress thread
\* The restriction tracker, as far as this engine uses it: current_progress(),
\* and try_split(fraction), which hands the part of the unclaimed work past the
\* split point to the residual.
TrackerProgress(t) == [completed |-> t.completed, remaining |-> t.total - t.completed]
TrackerCanSplit(t) == t.completed < t.total
TrackerSplitPoint(t, tfrac) == Min(t.total - 1, t.completed + ((t.total - t.completed) * tfrac[1]) \div tfrac[2])

\* The request's fraction lands beyond the remaining work of the window being
\* processed, which is not the element's last window to process.
BeyondNonLast ==
  /\ split_local.op = "try_split"
  /\ InUserFn
  /\ threadsafe_restriction_tracker # NoneObj
  /\ current_windowed_value # NoneObj
  /\ has_windowed_inputs
  /\ current_windowed_value.windows > 1
  /\ LET t == threadsafe_restriction_tracker
         stop == IF stop_window_index = None THEN current_windowed_value.windows
                 ELSE stop_window_index
         p == TrackerProgress(t)
         sc == _scale_progress(p, t.win, stop)
     IN /\ t.win < stop - 1
        /\ sc.remaining * split_local.fraction[1] >= p.remaining * split_local.fraction[2]

\* The user function is running for a non-last window of a window-observing
\* element and the fraction asked for lies within that window.
WithinNonLast ==
  /\ split_local.op = "try_split"
  /\ InUserFn
  /\ threadsafe_restriction_tracker # NoneObj
  /\ current_windowed_value # NoneObj
  /\ has_windowed_inputs
  /\ current_windowed_value.windows > 1
  /\ LET t == threadsafe_restriction_tracker
         stop == IF stop_window_index = None THEN current_windowed_value.windows
                 ELSE stop_window_index
         p == TrackerProgress(t)
         sc == _scale_progress(p, t.win, stop)
     IN /\ t.win < stop - 1
        /\ sc.remaining * split_local.fraction[1] < p.remaining * split_local.fraction[2]

\* The user function is running for the last window still to process of a
\* window-observing element, or for all the windows of its element at once.
LastOrAllWindows ==
  /\ split_local.op = "try_split"
  /\ InUserFn
  /\ threadsafe_restriction_tracker # NoneObj
  /\ current_windowed_value # NoneObj
  /\ \/ ~has_windowed_inputs
     \/ current_windowed_value.windows = 1
     \/ threadsafe_restriction_tracker.win =
          (IF stop_window_index = None THEN current_windowed_value.windows
           ELSE stop_window_index) - 1

\* What the processing thread is doing when the split thread reads the
\* invoker's state (kept for the properties; the program does not read it).
Ctx == [inflight |-> InFlight, beyond |-> BeyondNonLast, within |-> WithinNonLast, single |-> LastOrAllWindows, declined |-> FALSE,
        window |-> IF threadsafe_restriction_tracker = NoneObj THEN None
                   ELSE threadsafe_restriction_tracker.win]

ZeroSizes == [whole |-> 0, primary |-> 0, residual |-> 0]
ReturnNone == [kind |-> "none", primaries |-> <<>>, residuals |-> <<>>, new_stop |-> None]

\* DoFnRunner.try_split -> PerWindowInvoker.try_split(fraction) is called.
CallTrySplit ==
  /\ split_pc = "idle"
  /\ \E f \in Fractions : split_local' = [op |-> "try_split", fraction |-> f]
  /\ IF is_splittable
     THEN /\ split_pc' = "ts_wait"
          /\ UNCHANGED <<split_ctx, split_result, whole_returned>>
     ELSE /\ split_pc' = "returned"
          /\ split_ctx' = Ctx
          /\ split_result' = ReturnNone
          /\ UNCHANGED whole_returned
  /\ UNCHANGED <<restVars, configVars, splitting_lock, sharedVars, procVars>>

\* DoFnRunner.current_element_progress is called.
CallProgress ==
  /\ split_pc = "idle"
  /\ split_local' = [op |-> "progress"]
  /\ IF is_splittable
     THEN /\ split_pc' = "pg_wait"
          /\ UNCHANGED <<split_ctx, split_result, whole_returned>>
     ELSE /\ split_pc' = "returned"
          /\ split_ctx' = Ctx
          /\ split_result' = ReturnNone
          /\ UNCHANGED whole_returned
  /\ UNCHANGED <<restVars, configVars, splitting_lock, sharedVars, procVars>>

\* "with self.splitting_lock:" on the split thread.
SplitAcquire ==
  /\ split_pc \in {"ts_wait", "pg_wait"}
  /\ splitting_lock = "free"
  /\ splitting_lock' = "split"
  /\ split_pc' = IF split_pc = "ts_wait" THEN "ts_cs" ELSE "pg_cs"
  /\ UNCHANGED <<restVars, configVars, sharedVars, procVars, split_local, split_ctx, split_result, whole_returned>>

\* Only what a caller of try_split gets: the outcome, the primaries, the
\* residuals, and the stop index try_split stores.
Returned(r) == [kind |-> r.kind, primaries |-> r.primaries, residuals |-> r.residuals, new_stop |-> r.new_stop]

\* The whole-window residuals returned so far, those of r included.
IsWhole(part) == part.whole
WholeReturned(r) ==
  IF r.kind = "split" THEN whole_returned \o SelectSeq(r.residuals, IsWhole)
  ELSE whole_returned

\* try_split under the lock: no tracker installed returns None; otherwise
\* _try_split runs up to its first restriction_size call (asking the tracker to
\* split on the way, when it gets that far) or, when it makes none, to its end.
TrySplitLocked ==
  /\ split_pc = "ts_cs"
  /\ IF threadsafe_restriction_tracker = NoneObj
     THEN /\ split_result' = ReturnNone
          /\ split_ctx' = Ctx
          /\ split_pc' = "returned"
          /\ splitting_lock' = "free"
          /\ UNCHANGED <<threadsafe_restriction_tracker, split_local, whole_returned>>
     ELSE \E tracker_split \in {FALSE, TrackerCanSplit(threadsafe_restriction_tracker)}, progress \in {NoneObj, TrackerProgress(threadsafe_restriction_tracker)} :
            LET prog == IF current_window_index = None THEN NoneObj ELSE progress
                wm == threadsafe_watermark_estimator.wm
                r == _try_split(split_local.fraction, current_window_index, stop_window_index, current_windowed_value, watermark_estimator_state, prog, tracker_split, wm, wm, ZeroSizes)
            IN /\ split_ctx' = [Ctx EXCEPT !.declined = r.asked /\ ~tracker_split]
               /\ threadsafe_restriction_tracker' =
                    IF r.asked /\ tracker_split
                    THEN [threadsafe_restriction_tracker EXCEPT !.total = TrackerSplitPoint(threadsafe_restriction_tracker, r.tfrac)]
                    ELSE threadsafe_restriction_tracker
               /\ IF r.size_calls = 0
                  THEN /\ split_result' = Returned(r)
                       /\ whole_returned' = WholeReturned(r)
                       /\ split_pc' = "returned"
                       /\ splitting_lock' = "free"
                       /\ UNCHANGED split_local
                  ELSE /\ split_pc' = "ts_sizing"
                       /\ split_local' = [op |-> "try_split", fraction |-> split_local.fraction, progress |-> prog, tracker_split |-> tracker_split, wm |-> wm]
                       /\ UNCHANGED <<split_result, whole_returned, splitting_lock>>
  /\ UNCHANGED <<restVars, configVars, current_windowed_value, restriction, watermark_estimator_state, threadsafe_watermark_estimator, current_window_index, stop_window_index, procVars>>

\* The restriction_size calls of _try_split returned: _try_split raises or
\* returns, try_split stores the new stop index of a split and leaves the lock.
TrySplitSized ==
  /\ split_pc = "ts_sizing"
  /\ \E sizes \in [whole : SizeValues, primary : SizeValues, residual : SizeValues] :
       LET r == _try_split(split_local.fraction, current_window_index, stop_window_index, current_windowed_value, watermark_estimator_state, split_local.progress, split_local.tracker_split, split_local.wm, split_local.wm, sizes)
       IN /\ split_result' = Returned(r)
          /\ whole_returned' = WholeReturned(r)
          /\ stop_window_index' = IF r.kind = "split" THEN r.new_stop ELSE stop_window_index
          /\ split_local' = [op |-> "try_split", fraction |-> split_local.fraction,
                             tracker_split |-> r.asked /\ split_local.tracker_split,
                             sizes |-> IF r.asked /\ split_local.tracker_split
                                       THEN [primary |-> sizes.primary, residual |-> sizes.residual]
                                       ELSE [primary |-> 0, residual |-> 0]]
  /\ split_pc' = "returned"
  /\ splitting_lock' = "free"
  /\ UNCHANGED <<restVars, configVars, current_windowed_value, restriction, watermark_estimator_state, threadsafe_restriction_tracker, threadsafe_watermark_estimator, current_window_index, procVars, split_ctx>>

\* current_element_progress under the lock: the two indices and the tracker
\* reference are copied.
ProgressLocked ==
  /\ split_pc = "pg_cs"
  /\ split_ctx' = Ctx
  /\ split_local' = [op |-> "progress",
                     current_window_index |-> current_window_index,
                     stop_window_index |-> stop_window_index,
                     tracker |-> threadsafe_restriction_tracker,
                     attached |-> threadsafe_restriction_tracker # NoneObj]
  /\ splitting_lock' = "free"
  /\ split_pc' = "pg_read"
  /\ UNCHANGED <<restVars, configVars, sharedVars, procVars, split_result, whole_returned>>

\* current_element_progress after the lock: the tracker's progress is read and
\* scaled.
ProgressCompute ==
  /\ split_pc = "pg_read"
  /\ IF split_local.tracker = NoneObj
     THEN split_result' = ReturnNone
     ELSE \E progress \in {NoneObj, TrackerProgress(split_local.tracker)} :
            split_result' =
              IF split_local.current_window_index \in {None, 0} \/ progress = NoneObj
              THEN [kind |-> "progress", value |-> progress]
              ELSE IF split_local.stop_window_index \in {None, 0}
                   THEN [kind |-> "AssertionError"]
                   ELSE [kind |-> "progress", value |-> _scale_progress(progress, split_local.current_window_index, split_local.stop_window_index)]
  /\ split_pc' = "returned"
  /\ split_local' = [op |-> "progress"]
  /\ UNCHANGED <<restVars, configVars, splitting_lock, sharedVars, procVars, split_ctx, whole_returned>>

\* The caller has its answer; the thread is ready for its next request.
SplitReturn ==
  /\ split_pc = "returned"
  /\ split_pc' = "idle"
  /\ split_local' = NoLocal
  /\ split_ctx' = NoCtx
  /\ split_result' = NoResult
  /\ UNCHANGED <<restVars, configVars, splitting_lock, sharedVars, procVars, whole_returned>>

SplitNext ==
  \/ CallTrySplit
  \/ CallProgress
  \/ SplitAcquire
  \/ TrySplitLocked
  \/ TrySplitSized
  \/ ProgressLocked
  \/ ProgressCompute
  \/ SplitReturn

Next == ProcNext \/ SplitNext

Spec == Init /\ [][Next]_vars

\* The split thread is scheduled: each of its steps that can be taken is taken.
\* Nothing is assumed of the processing thread, which may stay in the user
\* function for ever.
FairSpec == Spec /\ WF_vars(SplitNext)

\* ------------------------------------------ accesses to the split state
\* The fields of PerWindowInvoker that splitting_lock protects.
SplitState ==
  {"current_windowed_value", "restriction", "watermark_estimator_state",
   "threadsafe_restriction_tracker", "threadsafe_watermark_estimator",
   "current_window_index", "stop_window_index"}

\* The fields the processing thread assigns at each of its positions: the
\* element's state in invoke_process, the index and the installed objects in
\* _should_process_window_for_sdf, everything but the stop index in the
\* finally block.
ProcWrites(pc) ==
  CASE pc = "store_cs" ->
         {"current_windowed_value", "restriction", "watermark_estimator_state"}
    [] pc = "sp_cs" ->
         {"current_window_index", "stop_window_index",
          "threadsafe_restriction_tracker", "threadsafe_watermark_estimator"}
    [] pc = "fin_cs" -> SplitState \ {"stop_window_index"}
    [] OTHER -> {}

\* The fields the processing thread reads at each of its positions:
\* self.restriction and self.watermark_estimator_state to create the
\* window's tracker and estimator, the stop index in the comparison, the
\* installed objects to pass them to the user function and to the output
\* handler, to check_done and to read the deferred status, the watermark and
\* the estimator state.
ProcReads(pc) ==
  CASE pc = "sp_wait" -> {"restriction", "watermark_estimator_state"}
    [] pc = "sp_cs" -> {"stop_window_index"}
    [] pc = "user_fn" ->
         IF is_splittable
         THEN {"threadsafe_restriction_tracker", "threadsafe_watermark_estimator"}
         ELSE {"threadsafe_watermark_estimator"}
    [] pc = "check_done" -> {"threadsafe_restriction_tracker"}
    [] pc = "sizing" -> {"threadsafe_watermark_estimator"}
    [] OTHER -> {}

\* The fields try_split and current_element_progress read at each position
\* of their thread; after its with block current_element_progress works on
\* its local copies.
SplitReads(pc) ==
  CASE pc \in {"ts_cs", "ts_sizing"} -> SplitState
    [] pc = "pg_cs" ->
         {"current_window_index", "stop_window_index",
          "threadsafe_restriction_tracker"}
    [] OTHER -> {}

\* try_split assigns the stop index of its result, nothing else.
SplitWrites(pc) ==
  CASE pc \in {"ts_cs", "ts_sizing"} -> {"stop_window_index"}
    [] OTHER -> {}

\* The fields the split/progress thread ever assigns.
SplitWritten == UNION {SplitWrites(pc) : pc \in {"ts_cs", "ts_sizing", "pg_cs", "pg_read"}}

\* ------------------------------------------------ the DoFnRunner lifecycle
\* A chain of DoFnRunners: a runner's outputs are received by the next
\* runner's process-type entry point, on the same thread, so a call in
\* progress is a stack of frames [id, entry, stage], outermost first.
\* Runner k has the step name k, or none.
LifecycleEntries == {"setup", "start", "finish", "teardown"}
ElementEntries == {"process", "process_batch", "process_with_sized_restriction", "process_user_timer"}
\* The entry points whose invoker routes outputs to receivers.
RoutingEntries == ElementEntries \cup {"finish"}
\* The entry points a receiver calls on the next runner.
ReceiverEntries == {"process", "process_batch", "process_with_sized_restriction"}

\* The entry points the harness may call in each phase of the lifecycle
\* (setup, then bundles of start, elements, finish, then teardown; after a
\* failure only teardown).
AllowedEntries ==
  CASE phase = "new" -> {"setup"}
    [] phase = "set_up" -> {"start", "teardown"}
    [] phase = "in_bundle" -> ElementEntries \cup {"finish"}
    [] phase = "failed" -> {"teardown"}
    [] OTHER -> {}

\* invoke_setup and invoke_start_bundle enter their contexts before the user
\* method is called.
FirstStageUser(entry) == "user"
FirstStage(entry) == IF entry \in {"setup", "start"} THEN "enter" ELSE "user"

Top == frames[Len(frames)]
Pop == SubSeq(frames, 1, Len(frames) - 1)
Running == frames # <<>> /\ exn = NoneObj
SetStage(stage) == [frames EXCEPT ![Len(frames)].stage = stage]

\* An exception object as _reraise_augmented sees it: whether it carries
\* _tagged_with_step, the step annotations added to its message, whether an
\* exception of its type can be rebuilt with an augmented message; and, for
\* the properties, whether a user function raised it, the depth of the frame
\* it was raised in, and the first runner (and first named runner) whose
\* entry point intercepted it.
NewException(user, augmentable) ==
  [tagged |-> FALSE, steps |-> <<>>, type |-> "Error", augmentable |-> augmentable,
   user |-> user, depth |-> Len(frames), first |-> None, first_named |-> None]

\* "getattr(exn, '_tagged_with_step', False) or not self.step_name".
PassesUntaggedToo(e, name) == name = None
PassesThrough(e, name) == e.tagged \/ name = None

\* DoFnRunner._reraise_augmented: the exception it raises.
_reraise_augmented(e, name) ==
  IF PassesThrough(e, name) THEN e
  ELSE [e EXCEPT !.tagged = TRUE,
                 !.steps = Append(e.steps, name),
                 !.type = IF e.augmentable THEN e.type ELSE "RuntimeError"]

\* The entry points that wrap their invoker call in
\* "try: ... except BaseException as exn: self._reraise_augmented(exn)".
Intercepts(entry) == entry # "process_with_sized_restriction"

\* The exception that leaves a runner's entry point when e reaches it.
LeaveFrame(frame, e) ==
  LET out == IF Intercepts(frame.entry)
             THEN _reraise_augmented(e, step_name[frame.id])
             ELSE e
  IN [out EXCEPT
        !.first = IF e.first = None /\ Intercepts(frame.entry)
                  THEN frame.id ELSE e.first,
        !.first_named = IF e.first_named = None /\ Intercepts(frame.entry)
                           /\ step_name[frame.id] # None
                        THEN frame.id ELSE e.first_named]

\* The harness calls an entry point of the first runner.
RunnerCall ==
  /\ frames = <<>>
  /\ delivered = NoDelivery
  /\ \E entry \in AllowedEntries :
       frames' = <<[id |-> 1, entry |-> entry, stage |-> FirstStage(entry)]>>
  /\ UNCHANGED <<step_name, exn, delivered, phase, _setup_context_values, _bundle_context_values, setup_open, bundle_open>>
  /\ UNCHANGED notRunnerVars

\* The dict comprehension of invoke_setup / invoke_start_bundle:
\* create_and_enter of each requested context in turn; when one raises, the
\* contexts entered before it stay entered and the field is not assigned.
EnterContexts ==
  /\ Running
  /\ Top.stage = "enter"
  /\ \E entered \in 0..MaxContexts :
       /\ IF Top.entry = "setup"
          THEN /\ setup_open' = setup_open + entered
               /\ _setup_context_values' = IF entered = MaxContexts THEN entered
                                           ELSE _setup_context_values
               /\ UNCHANGED <<bundle_open, _bundle_context_values>>
          ELSE /\ bundle_open' = bundle_open + entered
               /\ _bundle_context_values' = IF entered = MaxContexts THEN entered
                                            ELSE _bundle_context_values
               /\ UNCHANGED <<setup_open, _setup_context_values>>
       /\ IF entered = MaxContexts
          THEN frames' = SetStage("user") /\ UNCHANGED exn
          ELSE exn' = NewException(FALSE, TRUE) /\ UNCHANGED frames
  /\ UNCHANGED <<step_name, delivered, phase>>
  /\ UNCHANGED notRunnerVars

\* An output of the running user method is routed to a receiver, which calls
\* the next runner of the chain.
RouteOutput ==
  /\ Running
  /\ Top.stage = "user"
  /\ Top.entry \in RoutingEntries
  /\ Len(frames) < MaxRunners
  /\ \E entry \in ReceiverEntries :
       frames' = Append(frames, [id |-> Len(frames) + 1, entry |-> entry, stage |-> "user"])
  /\ UNCHANGED <<step_name, exn, delivered, phase, _setup_context_values, _bundle_context_values, setup_open, bundle_open>>
  /\ UNCHANGED notRunnerVars

\* The user method of the innermost call raises.
RunnerUserRaise ==
  /\ Running
  /\ Top.stage = "user"
  /\ \E augmentable \in BOOLEAN : exn' = NewException(TRUE, augmentable)
  /\ UNCHANGED <<step_name, frames, delivered, phase, _setup_context_values, _bundle_context_values, setup_open, bundle_open>>
  /\ UNCHANGED notRunnerVars

\* The innermost call ends without an exception: it returns to the user
\* method that routed the output, or to the harness.
ReturnFrame ==
  /\ frames' = Pop
  /\ delivered' = IF Len(frames) = 1
                  THEN [kind |-> "returned", entry |-> Top.entry]
                  ELSE delivered

\* The user method returned and its outputs were routed; invoke_finish_bundle
\* and invoke_teardown go on to exit their contexts.
RunnerUserReturn ==
  /\ Running
  /\ Top.stage = "user"
  /\ IF Top.entry \in {"finish", "teardown"}
     THEN frames' = SetStage("exit") /\ UNCHANGED delivered
     ELSE ReturnFrame
  /\ UNCHANGED <<step_name, exn, phase, _setup_context_values, _bundle_context_values, setup_open, bundle_open>>
  /\ UNCHANGED notRunnerVars

\* "for c in self._..._context_values.values(): c[0].__exit__(...)" and the
\* field reset to None; .values() of a field that was never assigned raises.
ExitContexts ==
  /\ Running
  /\ Top.stage = "exit"
  /\ IF Top.entry = "finish"
     THEN IF _bundle_context_values = None
          THEN exn' = NewException(FALSE, TRUE)
               /\ UNCHANGED <<frames, delivered, bundle_open, _bundle_context_values>>
          ELSE /\ bundle_open' = bundle_open - _bundle_context_values
               /\ _bundle_context_values' = None
               /\ ReturnFrame
               /\ UNCHANGED exn
     ELSE IF _setup_context_values = None
          THEN exn' = NewException(FALSE, TRUE)
               /\ UNCHANGED <<frames, delivered, setup_open, _setup_context_values>>
          ELSE /\ setup_open' = setup_open - _setup_context_values
               /\ _setup_context_values' = None
               /\ ReturnFrame
               /\ UNCHANGED exn
  /\ IF Top.entry = "finish"
     THEN UNCHANGED <<setup_open, _setup_context_values>>
     ELSE UNCHANGED <<bundle_open, _bundle_context_values>>
  /\ UNCHANGED <<step_name, phase>>
  /\ UNCHANGED notRunnerVars

\* The exception leaves the innermost call's entry point: through its except
\* clause when it has one. Out of the outermost call it reaches the harness.
Unwind ==
  /\ frames # <<>>
  /\ exn # NoneObj
  /\ exn' = LeaveFrame(Top, exn)
  /\ frames' = Pop
  /\ delivered' = IF Len(frames) = 1
                  THEN [kind |-> "raised", entry |-> Top.entry]
                  ELSE delivered
  /\ UNCHANGED <<step_name, phase, _setup_context_values, _bundle_context_values, setup_open, bundle_open>>
  /\ UNCHANGED notRunnerVars

\* The harness moves on: to the next phase after a call that returned, to
\* teardown after one that raised.
NextPhase ==
  IF delivered.entry = "teardown" THEN "torn_down"
  ELSE IF delivered.kind = "raised" THEN "failed"
  ELSE CASE delivered.entry = "setup" -> "set_up"
         [] delivered.entry = "start" -> "in_bundle"
         [] delivered.entry = "finish" -> "set_up"
         [] OTHER -> phase

HarnessNext ==
  /\ delivered # NoDelivery
  /\ phase' = NextPhase
  /\ delivered' = NoDelivery
  /\ exn' = NoneObj
  /\ UNCHANGED <<step_name, frames, _setup_context_values, _bundle_context_values, setup_open, bundle_open>>
  /\ UNCHANGED notRunnerVars

\* A new DoFn instance and its runners replace the torn-down ones.
NewInstance ==
  /\ phase = "torn_down"
  /\ delivered = NoDelivery
  /\ phase' = "new"
  /\ _setup_context_values' = None
  /\ _bundle_context_values' = None
  /\ setup_open' = 0
  /\ bundle_open' = 0
  /\ UNCHANGED <<step_name, frames, exn, delivered>>
  /\ UNCHANGED notRunnerVars

RunnerInit ==
  /\ PerWindowInit
  /\ ~is_splittable
  /\ ~has_windowed_inputs
  /\ step_name \in {f \in [1..MaxRunners -> {None} \cup (1..MaxRunners)] : \A k \in 1..MaxRunners : f[k] \in {None, k}}
  /\ frames = <<>>
  /\ exn = NoneObj
  /\ delivered = NoDelivery
  /\ phase = "new"
  /\ _setup_context_values = None
  /\ _bundle_context_values = None
  /\ setup_open = 0
  /\ bundle_open = 0
  /\ InvokerIdle
  /\ SignatureIdle
  /\ TrySplitIdle
  /\ ArgsIdle
  /\ OutputsIdle

RunnerNext ==
  \/ RunnerCall
  \/ EnterContexts
  \/ RouteOutput
  \/ RunnerUserRaise
  \/ RunnerUserReturn
  \/ ExitContexts
  \/ Unwind
  \/ HarnessNext
  \/ NewInstance

RunnerSpec == RunnerInit /\ [][RunnerNext]_vars

\* ------------------------------------------- the invokers, element by element
\* The process (and process_batch) signature of the DoFn, as far as the
\* invokers look at it: a WindowParam default in process or process_batch,
\* side inputs (all globally windowed or not), a StateParam or a TimerParam
\* (the DoFn is then stateful and the runner has a user-state context), a
\* KeyParam, a RestrictionParam (the DoFn is then splittable).
FnConfigs ==
  {f \in [window_param : BOOLEAN, batch_window_param : BOOLEAN,
          side_inputs : BOOLEAN, side_inputs_global : BOOLEAN,
          state_param : BOOLEAN, timer_param : BOOLEAN, key_param : BOOLEAN,
          restriction_param : BOOLEAN] :
     ~f.side_inputs => f.side_inputs_global}

\* DoFnSignature.is_stateful_dofn.
is_stateful_dofn(f) == f.state_param \/ f.timer_param

\* An invoker that never, or always, takes its inputs for windowed.
NeverWindowed(f) == FALSE
AlwaysWindowed(f) == TRUE
\* PerWindowInvoker.__init__: self.has_windowed_inputs.
HasWindowedInputs(f) ==
  \/ ~f.side_inputs_global
  \/ f.window_param
  \/ f.batch_window_param
  \/ is_stateful_dofn(f)

\* DoFnInvoker.create_invoker: the per-window invoker is used as soon as there
\* are side inputs, special parameters (defaults) or state.
create_invoker(f) ==
  IF f.side_inputs \/ f.window_param \/ f.batch_window_param \/ f.key_param
       \/ f.restriction_param \/ is_stateful_dofn(f)
  THEN "PerWindowInvoker"
  ELSE "SimpleInvoker"

\* Pane metadata: the default of a WindowedValue built without one, and
\* another value.
PANE_INFO_UNKNOWN == "PANE_INFO_UNKNOWN"
PaneInfos == {PANE_INFO_UNKNOWN, "ON_TIME"}
\* Element values: a key/value pair, or something that is not a pair.
ElementValues == {[pair |-> TRUE, key |-> 1, val |-> 2], [pair |-> FALSE]}
\* The tag of a result: none, or the tag of a TaggedOutput: a string with a
\* registered receiver, a string with none, or something that is no string.
NoTag == [tagged |-> FALSE]
Tags ==
  {NoTag,
   [tagged |-> TRUE, name |-> "out", is_str |-> TRUE],
   [tagged |-> TRUE, name |-> "missing", is_str |-> TRUE],
   [tagged |-> TRUE, name |-> "out", is_str |-> FALSE]}
\* The keys of tagged_receivers other than None.
TaggedReceivers == {"out"}
\* What the user function yields for an element: nothing, or one result, a
\* plain value, a WindowedValue, a TimestampedValue or (a process method
\* declared to yield batches) a batch, tagged or not.
ResultShapes == {"plain", "windowed", "timestamped", "batch"}
NoResults == [shape |-> "none", tag |-> NoTag]
ResultKinds == {NoResults} \cup [shape : ResultShapes, tag : Tags]
\* What process_batch yields for a batch: nothing, or one untagged batch.
BatchResultKinds == {NoResults, [shape |-> "batch", tag |-> NoTag]}
InputTimestamp == 5
ResultTimestamp == 7
ResultWindow == 9
\* The window window_fn.assign gives a TimestampedValue.
AssignedWindow == 8
\* The number of elements of a batch.
BatchLength == 2
\* The value the user function computes from an element value.
process_method(value) == [f_of |-> value]

\* The windows 1..n as the tuple windowed_value.windows.
WindowTuple(n) == [k \in 1..n |-> k]
\* Python's "windows *= n".
RECURSIVE Times(_, _)
Times(ws, n) == IF n <= 0 THEN <<>> ELSE ws \o Times(ws, n - 1)

\* WindowedValue(value, timestamp, windows): no pane_info argument.
WindowedValue(value, timestamp, windows) ==
  [value |-> value, timestamp |-> timestamp, windows |-> windows,
   pane_info |-> PANE_INFO_UNKNOWN]

\* HomogeneousWindowedBatch.of(values, timestamp, windows, pane_info).
HomogeneousWindowedBatch(values, timestamp, windows, pane_info) ==
  [value |-> values, timestamp |-> timestamp, windows |-> windows,
   pane_info |-> pane_info]

\* The input of one user-function call (what _invoke_process_per_window or
\* _invoke_process_batch_per_window is given) for window w of an exploded
\* input.
WindowCopy(input, w, path) ==
  IF path = "batch"
  THEN HomogeneousWindowedBatch(input.value, input.timestamp, <<w>>, input.pane_info)
  ELSE WindowedValue(input.value, input.timestamp, <<w>>)

\* invoke_process / invoke_process_batch: the inputs of the calls to make.
Explode(inv, windowed, input, path) ==
  IF inv = "PerWindowInvoker" /\ windowed /\ Len(input.windows) # 1
  THEN [k \in 1..Len(input.windows) |-> WindowCopy(input, input.windows[k], path)]
  ELSE <<input>>

\* The second component of a key/value pair.
ExtractValue(value) == value.val
\* "key, unused_value = windowed_value.value".
ExtractKey(value) == value.key

\* _invoke_process_per_window / _invoke_process_batch_per_window up to the
\* user function call: the window, the key, the state lookups, the arguments.
PerWindowCall(f, windowed, input, path) ==
  IF windowed /\ Len(input.windows) # 1
  THEN [error |-> "AssertionError", lookups |-> <<>>]
  ELSE
    LET window == IF windowed THEN input.windows[1] ELSE "GlobalWindow"
        needs_key == path = "element" /\ (is_stateful_dofn(f) \/ f.key_param)
    IN IF needs_key /\ ~input.value.pair
       THEN [error |-> "ValueError", lookups |-> <<>>]
       ELSE
         LET key == IF needs_key THEN ExtractKey(input.value) ELSE None
             state == IF path = "element" /\ f.state_param
                      THEN <<[op |-> "get_state", key |-> key, window |-> window]>>
                      ELSE <<>>
             timer == IF path = "element" /\ f.timer_param
                      THEN <<[op |-> "get_timer", key |-> key, window |-> window]>>
                      ELSE <<>>
         IN [error |-> "none",
             lookups |-> state \o timer,
             call |-> [value |-> input.value, timestamp |-> input.timestamp,
                       windows |-> input.windows, pane_info |-> input.pane_info,
                       state |-> state, timer |-> timer]]

\* SimpleInvoker: the user function gets the value alone.
SimpleCall(input) ==
  [error |-> "none", lookups |-> <<>>,
   call |-> [value |-> input.value, timestamp |-> input.timestamp,
             windows |-> input.windows, pane_info |-> input.pane_info,
             state |-> <<>>, timer |-> <<>>]]

\* A result routed with the windowing information of the input alone.
OutputWithInputWindowing(input, result) ==
  [value |-> process_method(input.value), timestamp |-> input.timestamp,
   windows |-> input.windows, pane_info |-> input.pane_info,
   batch |-> result.shape = "batch"]
\* _OutputHandler._maybe_propagate_windowing_info (and the batch branch of
\* handle_process_outputs, from_batch_and_windowed_value): the windowed value
\* or batch made of one result.
OutputOf(input, result) ==
  LET n == Len(input.windows)
      value == process_method(input.value)
  IN CASE result.shape = "windowed" ->
            [value |-> value, timestamp |-> ResultTimestamp,
             windows |-> IF n # 1 THEN Times(<<ResultWindow>>, n) ELSE <<ResultWindow>>,
             pane_info |-> PANE_INFO_UNKNOWN, batch |-> FALSE]
       [] result.shape = "timestamped" ->
            [value |-> value, timestamp |-> ResultTimestamp,
             windows |-> IF n # 1 THEN Times(<<AssignedWindow>>, n) ELSE <<AssignedWindow>>,
             pane_info |-> PANE_INFO_UNKNOWN, batch |-> FALSE]
       [] OTHER ->
            [value |-> value, timestamp |-> input.timestamp,
             windows |-> input.windows, pane_info |-> input.pane_info,
             batch |-> result.shape = "batch"]

\* WindowedBatch.timestamps: one timestamp per element of the batch.
timestamps(windowed) ==
  [k \in 1..(IF windowed.batch THEN BatchLength ELSE 1) |-> windowed.timestamp]

\* The calls made on the estimator and on the receivers.
Observe(timestamp) == [op |-> "observe_timestamp", timestamp |-> timestamp]
Receive(receiver, windowed) ==
  [op |-> "receive", receiver |-> receiver, value |-> windowed.value,
   timestamp |-> windowed.timestamp, windows |-> windowed.windows,
   pane_info |-> windowed.pane_info, batch |-> windowed.batch]
IsReceive(e) == e.op = "receive"
Delivered(events) == SelectSeq(events, IsReceive)

\* The receiver a tag stands for: main_receivers, or tagged_receivers[tag].
ReceiverOf(tag) == IF tag.tagged THEN tag.name ELSE "main"

\* Writing with the receiver called before the estimator.
WriteThenObserve(tag, windowed, estimator) ==
  IF tag.tagged /\ tag.name \notin TaggedReceivers
  THEN [events |-> <<>>, error |-> "KeyError"]
  ELSE [events |-> <<Receive(ReceiverOf(tag), windowed)>>
                     \o (IF estimator
                         THEN [k \in 1..Len(timestamps(windowed)) |-> Observe(timestamps(windowed)[k])]
                         ELSE <<>>),
        error |-> "none"]
\* Writing everything to the main receiver.
WriteToMain(tag, windowed, estimator) ==
  [events |-> (IF estimator
               THEN [k \in 1..Len(timestamps(windowed)) |-> Observe(timestamps(windowed)[k])]
               ELSE <<>>) \o <<Receive("main", windowed)>>,
   error |-> "none"]
\* _OutputHandler._write_value_to_tag / _write_batch_to_tag: the estimator,
\* when there is one, observes the timestamps; then the receiver is looked up
\* and called.
_write_value_to_tag(tag, windowed, estimator) ==
  LET observed == IF estimator
                  THEN [k \in 1..Len(timestamps(windowed)) |-> Observe(timestamps(windowed)[k])]
                  ELSE <<>>
  IN IF tag.tagged /\ tag.name \notin TaggedReceivers
     THEN [events |-> observed, error |-> "KeyError"]
     ELSE [events |-> observed \o <<Receive(ReceiverOf(tag), windowed)>>,
           error |-> "none"]

\* _OutputHandler.handle_process_outputs for the results of one call: the
\* tag is unwrapped (_handle_tagged_output), the windowing information
\* propagated and the output written.
handle_process_outputs(input, result, estimator) ==
  IF result = NoResults THEN [events |-> <<>>, error |-> "none"]
  ELSE IF result.tag.tagged /\ ~result.tag.is_str
  THEN [events |-> <<>>, error |-> "TypeError"]
  ELSE _write_value_to_tag(result.tag, OutputOf(input, result), estimator)

\* _OutputHandler.handle_process_batch_outputs for a process_batch that
\* yields batches: windowed_input_batch.with_values(result) is written.
handle_process_batch_outputs(input, result, estimator) ==
  IF result = NoResults THEN [events |-> <<>>, error |-> "none"]
  ELSE IF result.tag.tagged /\ ~result.tag.is_str
  THEN [events |-> <<>>, error |-> "TypeError"]
  ELSE _write_value_to_tag(result.tag, OutputOf(input, result), estimator)

\* SimpleInvoker.invoke_process: what the direct invoker writes to the
\* receivers for an element and the result of the user function.
SimpleInvokerOutputs(input, result) ==
  Delivered(handle_process_outputs(input, result, FALSE).events)

\* What finish_bundle may yield: up to MaxResults results, each a
\* WindowedValue, a TimestampedValue or a plain value, tagged or not.
FinishResultKinds ==
  [shape : {"plain", "windowed", "timestamped"},
   tag : {t \in Tags : t.tagged => t.name \in TaggedReceivers}]
FinishResults ==
  UNION {[1..n -> FinishResultKinds] : n \in 0..MaxResults}

\* The WindowedValue a finish_bundle result of that shape is.
FinishWindowedValue ==
  [value |-> "bundle", timestamp |-> ResultTimestamp, windows |-> <<ResultWindow>>,
   pane_info |-> PANE_INFO_UNKNOWN, batch |-> FALSE]

\* Routing a finish_bundle result whatever its shape, with the timestamp and
\* window of a WindowedValue.
FinishOneAnyShape(result) ==
  IF result.tag.tagged /\ ~result.tag.is_str
  THEN [events |-> <<>>, error |-> "TypeError"]
  ELSE [events |-> <<Receive(ReceiverOf(result.tag), FinishWindowedValue)>>,
        error |-> "none"]
\* _OutputHandler.finish_bundle_outputs, one result of the loop.
FinishOne(result) ==
  IF result.tag.tagged /\ ~result.tag.is_str
  THEN [events |-> <<>>, error |-> "TypeError"]
  ELSE IF result.shape # "windowed"
  THEN [events |-> <<>>, error |-> "RuntimeError"]
  ELSE IF result.tag.tagged /\ result.tag.name \notin TaggedReceivers
  THEN [events |-> <<>>, error |-> "KeyError"]
  ELSE [events |-> <<Receive(ReceiverOf(result.tag), FinishWindowedValue)>>,
        error |-> "none"]

\* _OutputHandler.finish_bundle_outputs: the loop stops at the first error.
RECURSIVE finish_bundle_outputs(_)
finish_bundle_outputs(results) ==
  IF results = <<>> THEN [events |-> <<>>, error |-> "none"]
  ELSE LET first == FinishOne(Head(results))
       IN IF first.error # "none" THEN first
          ELSE LET rest == finish_bundle_outputs(Tail(results))
               IN [events |-> first.events \o rest.events, error |-> rest.error]

\* The estimator handed to the output handler: threadsafe_watermark_estimator,
\* installed for every call of a splittable DoFn's process and for no other.
EstimatorActive ==
  is_splittable /\ invoker = "PerWindowInvoker" /\ inv_input.path = "element"

InvokerCall ==
  /\ inv_pc = "idle"
  /\ \E value \in ElementValues, n \in 1..MaxWindows, pane \in PaneInfos, path \in {"element", "batch"} :
       \E result \in (IF path = "element" THEN ResultKinds ELSE BatchResultKinds) :
         LET input == [value |-> value, timestamp |-> InputTimestamp,
                       windows |-> WindowTuple(n), pane_info |-> pane]
         IN /\ inv_input' = [input |-> input, result |-> result, path |-> path]
            /\ inv_plan' = Explode(invoker, has_windowed_inputs, input, path)
  /\ inv_pc' = "calling"
  /\ inv_calls' = <<>>
  /\ inv_lookups' = <<>>
  /\ inv_out' = <<>>
  /\ inv_events' = <<>>
  /\ inv_error' = "none"
  /\ UNCHANGED <<fn, invoker>>
  /\ UNCHANGED notInvokerVars

\* One _invoke_process_per_window (or SimpleInvoker) call: the arguments are
\* prepared, the user function runs and its results are routed.
InvokerStep ==
  /\ inv_pc = "calling"
  /\ inv_plan # <<>>
  /\ LET input == Head(inv_plan)
         r == IF invoker = "SimpleInvoker" THEN SimpleCall(input)
              ELSE PerWindowCall(fn, has_windowed_inputs, input, inv_input.path)
         h == IF inv_input.path = "batch"
              THEN handle_process_batch_outputs(input, inv_input.result, EstimatorActive)
              ELSE handle_process_outputs(input, inv_input.result, EstimatorActive)
     IN IF r.error # "none"
        THEN /\ inv_error' = r.error
             /\ inv_pc' = "done"
             /\ UNCHANGED <<inv_plan, inv_calls, inv_lookups, inv_out, inv_events>>
        ELSE /\ inv_calls' = Append(inv_calls, r.call)
             /\ inv_lookups' = inv_lookups \o r.lookups
             /\ inv_events' = inv_events \o h.events
             /\ inv_out' = inv_out \o Delivered(h.events)
             /\ IF h.error # "none"
                THEN /\ inv_error' = h.error
                     /\ inv_pc' = "done"
                     /\ UNCHANGED inv_plan
                ELSE /\ inv_plan' = Tail(inv_plan)
                     /\ UNCHANGED <<inv_pc, inv_error>>
  /\ UNCHANGED <<fn, invoker, inv_input>>
  /\ UNCHANGED notInvokerVars

\* invoke_finish_bundle: the finish_bundle method runs and its results are
\* routed by finish_bundle_outputs.
InvokerFinishBundle ==
  /\ inv_pc = "idle"
  /\ \E results \in FinishResults :
       LET h == finish_bundle_outputs(results)
       IN /\ inv_input' = [path |-> "finish_bundle", results |-> results]
          /\ inv_events' = h.events
          /\ inv_out' = Delivered(h.events)
          /\ inv_error' = h.error
  /\ inv_pc' = "done"
  /\ inv_plan' = <<>>
  /\ inv_calls' = <<>>
  /\ inv_lookups' = <<>>
  /\ UNCHANGED <<fn, invoker>>
  /\ UNCHANGED notInvokerVars

\* The user function raises in the call that comes next.
InvokerUserRaise ==
  /\ inv_pc = "calling"
  /\ inv_plan # <<>>
  /\ \/ invoker = "SimpleInvoker"
     \/ PerWindowCall(fn, has_windowed_inputs, Head(inv_plan), inv_input.path).error = "none"
  /\ inv_error' = "user"
  /\ inv_pc' = "done"
  /\ UNCHANGED <<fn, invoker, inv_input, inv_plan, inv_calls, inv_lookups, inv_out, inv_events>>
  /\ UNCHANGED notInvokerVars

\* All calls were made: invoke_process returns.
InvokerFinish ==
  /\ inv_pc = "calling"
  /\ inv_plan = <<>>
  /\ inv_pc' = "done"
  /\ UNCHANGED <<fn, invoker, inv_input, inv_plan, inv_calls, inv_lookups, inv_out, inv_events, inv_error>>
  /\ UNCHANGED notInvokerVars

InvokerReturn ==
  /\ inv_pc = "done"
  /\ inv_pc' = "idle"
  /\ inv_input' = NoneObj
  /\ inv_plan' = <<>>
  /\ inv_calls' = <<>>
  /\ inv_lookups' = <<>>
  /\ inv_out' = <<>>
  /\ inv_events' = <<>>
  /\ inv_error' = "none"
  /\ UNCHANGED <<fn, invoker>>
  /\ UNCHANGED notInvokerVars

\* A DoFn signature and its invoker: the one create_invoker picks, or the
\* per-window invoker built for the same DoFn.
InvokerInit ==
  /\ fn \in FnConfigs
  /\ invoker \in {create_invoker(fn), "PerWindowInvoker"}
  /\ PerWindowInit
  /\ is_splittable = fn.restriction_param
  /\ has_windowed_inputs = HasWindowedInputs(fn)
  /\ RunnerIdle
  /\ SignatureIdle
  /\ TrySplitIdle
  /\ ArgsIdle
  /\ OutputsIdle
  /\ inv_pc = "idle"
  /\ inv_input = NoneObj
  /\ inv_plan = <<>>
  /\ inv_calls = <<>>
  /\ inv_lookups = <<>>
  /\ inv_out = <<>>
  /\ inv_events = <<>>
  /\ inv_error = "none"

InvokerNext ==
  \/ InvokerCall
  \/ InvokerStep
  \/ InvokerFinishBundle
  \/ InvokerUserRaise
  \/ InvokerFinish
  \/ InvokerReturn

InvokerSpec == InvokerInit /\ [][InvokerNext]_vars

\* ------------------------------------------------- building the signature
\* The defaults a process_batch method may declare: the DoFn parameters
\* (WindowedValueParam standing for every other _DoFnParam) and a default
\* that is no _DoFnParam. StateParam and TimerParam are instances of the
\* classes DoFn.StateParam / DoFn.TimerParam, the others are the DoFn.XParam
\* objects themselves.
ParamKinds ==
  {"ElementParam", "KeyParam", "StateParam", "TimerParam", "WindowParam",
   "TimestampParam", "PaneInfoParam", "WindowedValueParam", "constant"}
DefaultLists == UNION {[1..n -> ParamKinds] : n \in 0..MaxParams}

\* isinstance(d, core._DoFnParam)
IsDoFnParam(d) == d # "constant"

\* _check_duplicate_dofn_params: two parameters with the same param_id.
HasDuplicates(defaults) ==
  \E i, j \in 1..Len(defaults) :
    i # j /\ IsDoFnParam(defaults[i]) /\ defaults[i] = defaults[j]

\* A per-key test that recognises the instances of the parameter classes too.
IsPerKeyKind(d) == d \in {"KeyParam", "StateParam", "TimerParam"}
\* "d in (core.DoFn.KeyParam, core.DoFn.StateParam, core.DoFn.TimerParam)":
\* d is compared with the object KeyParam and with the classes StateParam and
\* TimerParam, which no instance of them equals.
InPerKeyTuple(d) == d = "KeyParam"

\* The loop of _validate_process_batch over the defaults, in order.
RECURSIVE ValidateBatchDefaults(_)
ValidateBatchDefaults(defaults) ==
  IF defaults = <<>> THEN "none"
  ELSE LET d == Head(defaults)
       IN IF ~IsDoFnParam(d) THEN ValidateBatchDefaults(Tail(defaults))
          ELSE IF d = "ElementParam" THEN "NotImplementedError"
          ELSE IF InPerKeyTuple(d) THEN "NotImplementedError"
          ELSE IF d \notin {"WindowParam", "TimestampParam", "PaneInfoParam"}
          THEN "ValueError"
          ELSE ValidateBatchDefaults(Tail(defaults))

\* DoFnSignature._validate_process_batch
_validate_process_batch(defaults) ==
  IF HasDuplicates(defaults) THEN "ValueError"
  ELSE ValidateBatchDefaults(defaults)

\* DoFnSignature._validate: _validate_process, then _validate_process_batch.
_validate(f) ==
  IF f.process_duplicates THEN "ValueError"
  ELSE _validate_process_batch(f.process_batch)

\* DoFnRunner.__init__: do_fn_signature = DoFnSignature(fn); an exception of
\* _validate leaves the constructor.
BuildSignature ==
  /\ sig_pc = "new"
  /\ sig_error' = _validate(sig_fn)
  /\ sig_pc' = IF _validate(sig_fn) = "none" THEN "built" ELSE "rejected"
  /\ UNCHANGED <<sig_fn, sig_batch_calls>>
  /\ UNCHANGED notSignatureVars

\* DoFnRunner.__init__ after the signature: the runner exists.
CreateRunner ==
  /\ sig_pc = "built"
  /\ sig_pc' = "runner"
  /\ UNCHANGED <<sig_fn, sig_error, sig_batch_calls>>
  /\ UNCHANGED notSignatureVars

\* DoFnRunner.process_batch: the invoker calls process_batch.
RunnerProcessBatch ==
  /\ sig_pc = "runner"
  /\ sig_batch_calls' = TRUE
  /\ UNCHANGED <<sig_fn, sig_pc, sig_error>>
  /\ UNCHANGED notSignatureVars

\* The bundle ends; the runner is kept for the next one.
RunnerBundleEnd ==
  /\ sig_pc = "runner"
  /\ sig_batch_calls
  /\ sig_batch_calls' = FALSE
  /\ UNCHANGED <<sig_fn, sig_pc, sig_error>>
  /\ UNCHANGED notSignatureVars

SignatureInit ==
  /\ sig_fn \in [process_duplicates : BOOLEAN, process_batch : DefaultLists]
  /\ sig_pc = "new"
  /\ sig_error = "none"
  /\ sig_batch_calls = FALSE
  /\ PerWindowInit
  /\ ~is_splittable
  /\ ~has_windowed_inputs
  /\ RunnerIdle
  /\ InvokerIdle
  /\ TrySplitIdle
  /\ ArgsIdle
  /\ OutputsIdle

SignatureNext ==
  \/ BuildSignature
  \/ CreateRunner
  \/ RunnerProcessBatch
  \/ RunnerBundleEnd

SignatureSpec == SignatureInit /\ [][SignatureNext]_vars

\* ---------------------------------------- _try_split as a static method
\* The arguments _try_split may be given for an element in n windows: no
\* window index (not window-observing) or an index i of a window being
\* processed, no stop index or one above i and at most n; what the tracker's
\* current_progress() answers (nothing, or completed and remaining work),
\* whether its try_split answers a split, and the sizes restriction_size
\* answers; estimator is what the watermark estimator answers now, read what
\* it answered when _try_split read it (nothing before that).
TrySplitArgs ==
  { a \in [fraction : Fractions,
           windows : 1..MaxWindows,
           window_index : {None} \cup (0..MaxWindows - 1),
           stop_window_index : {None} \cup (1..MaxWindows),
           tracker_progress : {NoneObj} \cup [completed : 0..MaxWork, remaining : 0..MaxWork],
           tracker_split : BOOLEAN,
           sizes : [whole : SizeValues, primary : SizeValues, residual : SizeValues],
           estimator : {InitialEstimatorState},
           read : {None}] :
      /\ a.window_index # None => a.window_index < a.windows
      /\ a.window_index = None => a.stop_window_index = None
      /\ a.stop_window_index # None =>
           /\ a.window_index < a.stop_window_index
           /\ a.stop_window_index <= a.windows }

\* The processing thread routes an output meanwhile: the estimator observes
\* its timestamp and answers a later watermark and state from then on.
EstimatorAdvances ==
  /\ ts_args # NoneObj
  /\ ts_args.estimator = InitialEstimatorState
  /\ ts_args' = [ts_args EXCEPT !.estimator = InitialEstimatorState + 1]
  /\ UNCHANGED <<ts_result, notTrySplitVars>>

\* current_watermark() and get_estimator_state() of _try_split, before it asks
\* the tracker to split.
ReadEstimator ==
  /\ ts_args # NoneObj
  /\ ts_args.read = None
  /\ ts_args' = [ts_args EXCEPT !.read = ts_args.estimator]
  /\ UNCHANGED <<ts_result, notTrySplitVars>>

\* The watermark and estimator state _try_split puts on the residual of a
\* split of the current restriction: its locals current_watermark and
\* current_estimator_state.
EstimatorNow(args) == args.estimator
EstimatorSnapshot(args) == args.read

\* The rest of _try_split: the tracker is asked to split, the sizes are
\* computed, _try_split returns or raises.
ApplyTrySplit ==
  /\ ts_args # NoneObj
  /\ ts_args.read # None
  /\ ts_result = NoResult
  /\ ts_result' = _try_split(ts_args.fraction, ts_args.window_index,
                             ts_args.stop_window_index,
                             [windows |-> ts_args.windows],
                             InitialEstimatorState, ts_args.tracker_progress,
                             ts_args.tracker_split, EstimatorSnapshot(ts_args),
                             EstimatorSnapshot(ts_args), ts_args.sizes)
  /\ UNCHANGED <<ts_args, notTrySplitVars>>

TrySplitInit ==
  /\ ts_args \in TrySplitArgs
  /\ ts_result = NoResult
  /\ PerWindowInit
  /\ is_splittable
  /\ has_windowed_inputs
  /\ RunnerIdle
  /\ InvokerIdle
  /\ SignatureIdle
  /\ ArgsIdle
  /\ OutputsIdle

TrySplitNext ==
  \/ EstimatorAdvances
  \/ ReadEstimator
  \/ ApplyTrySplit

TrySplitSpec == TrySplitInit /\ [][TrySplitNext]_vars

\* --------------------------------------------- the arguments of process
\* What a position of the argument template holds: a constant of the call
\* site, an ArgumentPlaceholder for a side input, or the ArgPlaceholder of a
\* special parameter.
SpecialParams == {"ElementParam", "KeyParam", "TimestampParam", "PaneInfoParam", "WindowParam"}
ArgSlots == {"const", "side"} \cup SpecialParams
Templates == UNION {[1..n -> ArgSlots] : n \in 1..MaxSlots}

\* What a PerWindowInvoker is built with: the template of its process
\* method, whether its side inputs are all globally windowed, the
\* disable_global_windowed_args_caching experiment, whether the DoFn is
\* splittable, whether the call site gave keyword arguments.
ArgConfigs ==
  {c \in [template : Templates, side_inputs_global : BOOLEAN, experiment : BOOLEAN,
          splittable : BOOLEAN, input_kwargs : BOOLEAN] :
     (\A i \in DOMAIN c.template : c.template[i] # "side") => c.side_inputs_global}

\* The signature such an invoker has.
ArgFn(c) ==
  [window_param |-> \E i \in DOMAIN c.template : c.template[i] = "WindowParam",
   batch_window_param |-> FALSE,
   side_inputs |-> \E i \in DOMAIN c.template : c.template[i] = "side",
   side_inputs_global |-> c.side_inputs_global,
   state_param |-> FALSE, timer_param |-> FALSE,
   key_param |-> \E i \in DOMAIN c.template : c.template[i] = "KeyParam",
   restriction_param |-> c.splittable]

\* An invoker that never recalculates its window arguments.
NeverRecalculate(c) == FALSE
\* PerWindowInvoker.__init__: self.recalculate_window_args.
recalculate_window_args(c) == HasWindowedInputs(ArgFn(c)) \/ c.experiment

\* _get_arg_placeholders: the positional template, the positions of the
\* special parameters in it, the keyword arguments.
ArgsWithPlaceholders(c) == [i \in DOMAIN c.template |-> [slot |-> c.template[i]]]
placeholders_for_process(c) == {i \in DOMAIN c.template : c.template[i] \in SpecialParams}
InputKwargs(c) == IF c.input_kwargs THEN {[k |-> "option", v |-> [slot |-> "const"]]} ELSE {}

\* The inputs of a call: two elements with different keys and values, two
\* timestamps, two panes, the window of the call.
ArgCalls ==
  [value : {[pair |-> TRUE, key |-> 1, val |-> 2], [pair |-> TRUE, key |-> 3, val |-> 4]},
   timestamp : {InputTimestamp, ResultTimestamp},
   pane_info : PaneInfos,
   window : 1..MaxWindows]

\* si[window] of the k-th side input.
SideInput(k, window) == [side |-> k, window |-> window]

\* util.insert_values_in_args: a new list in which each ArgumentPlaceholder
\* is replaced by the next value, here the side inputs of the window.
insert_values_in_args(args, window) ==
  [i \in DOMAIN args |->
     IF args[i] = [slot |-> "side"]
     THEN SideInput(Cardinality({m \in 1..i : args[m] = [slot |-> "side"]}), window)
     ELSE args[i]]

\* What the loop over placeholders_for_process writes for parameter p.
ParamValue(p, call, window) ==
  CASE p = "ElementParam" -> call.value
    [] p = "KeyParam" -> [key |-> call.value.key]
    [] p = "TimestampParam" -> [timestamp |-> call.timestamp]
    [] p = "PaneInfoParam" -> [pane_info |-> call.pane_info]
    [] p = "WindowParam" -> window

\* "for i, p in self.placeholders_for_process: args_for_process[i] = ...".
FillPlaceholders(c, args, call, window) ==
  [i \in DOMAIN args |->
     IF i \in placeholders_for_process(c)
     THEN ParamValue(c.template[i], call, window)
     ELSE args[i]]

\* The keyword arguments _should_process_window_for_sdf adds for a
\* splittable DoFn: the tracker view of this call.
AdditionalKwargs(c, call) ==
  IF c.splittable THEN {[k |-> "tracker", v |-> [tracker_of |-> call]]} ELSE {}

\* dict.update.
DictUpdate(d, more) == {e \in d : \A m \in more : m.k # e.k} \cup more

\* The window of a call that computes it.
WindowOf(c, call) ==
  IF HasWindowedInputs(ArgFn(c)) THEN [w |-> call.window] ELSE [global |-> TRUE]

\* The arguments built for a call from the template alone, nothing cached.
Rebuild(c, call) ==
  [args |-> FillPlaceholders(c, insert_values_in_args(ArgsWithPlaceholders(c), WindowOf(c, call)),
                             call, WindowOf(c, call)),
   kwargs |-> DictUpdate(InputKwargs(c), AdditionalKwargs(c, call))]

\* _invoke_process_per_window up to the call of the process method. The
\* cached list and dict are the objects the call fills in place; a list or
\* dict made by insert_values_in_args, and the dict made by "or {}", are
\* new ones.
InvokePerWindow ==
  /\ arg_cfg # NoneObj
  /\ \E call \in ArgCalls :
       LET cached == has_cached_window_args
           window == IF cached THEN [unbound |-> TRUE] ELSE WindowOf(arg_cfg, call)
           inserted == IF cached THEN args_for_process
                       ELSE insert_values_in_args(args_for_process, window)
           store == ~cached /\ ~recalculate_window_args(arg_cfg)
           shared == cached \/ store
           args == FillPlaceholders(arg_cfg, inserted, call, window)
           kwargs == DictUpdate(kwargs_for_process, AdditionalKwargs(arg_cfg, call))
       IN /\ arg_given' = [args |-> args, kwargs |-> kwargs]
          /\ arg_call' = [input |-> call, from_cache |-> cached]
          /\ has_cached_window_args' = shared
          /\ args_for_process' = IF shared THEN args ELSE args_for_process
          /\ kwargs_for_process' = IF shared /\ kwargs_for_process # {} THEN kwargs
                                   ELSE kwargs_for_process
  /\ UNCHANGED <<arg_cfg, notArgsVars>>

\* PerWindowInvoker.__init__.
ArgsInit ==
  /\ arg_cfg \in ArgConfigs
  /\ args_for_process = ArgsWithPlaceholders(arg_cfg)
  /\ kwargs_for_process = InputKwargs(arg_cfg)
  /\ has_cached_window_args = FALSE
  /\ arg_call = NoneObj
  /\ arg_given = NoneObj
  /\ PerWindowInit
  /\ ~is_splittable
  /\ ~has_windowed_inputs
  /\ RunnerIdle
  /\ InvokerIdle
  /\ SignatureIdle
  /\ TrySplitIdle
  /\ OutputsIdle

ArgsNext == InvokePerWindow

ArgsSpec == ArgsInit /\ [][ArgsNext]_vars

\* ------------------------------------- the results of one call, in order
\* The user function raises while producing a result.
Raised == [shape |-> "raise", tag |-> NoTag]
\* What one call produces: up to MaxResults results of any shape and tag,
\* the production of any of them possibly raising.
OutputResults ==
  UNION {[1..n -> [shape : {"plain", "windowed", "timestamped"}, tag : Tags] \cup {Raised}] :
           n \in 0..MaxResults}

\* The element whose results are routed.
OutputInput ==
  [value |-> [pair |-> TRUE, key |-> 1, val |-> 2], timestamp |-> InputTimestamp,
   windows |-> WindowTuple(1), pane_info |-> PANE_INFO_UNKNOWN]

\* "for result in results:" of handle_process_outputs and of
\* finish_bundle_outputs, one iteration: the next result is produced and
\* routed; an exception leaves the loop.
OutputStep ==
  /\ out_pc = "looping"
  /\ out_next <= Len(out_results)
  /\ LET result == out_results[out_next]
         h == IF result = Raised THEN [events |-> <<>>, error |-> "user"]
              ELSE IF out_mode = "process"
              THEN handle_process_outputs(OutputInput, result, out_estimator)
              ELSE FinishOne(result)
     IN /\ out_events' = out_events \o h.events
        /\ out_error' = h.error
        /\ IF h.error # "none"
           THEN out_pc' = "failed" /\ UNCHANGED out_next
           ELSE out_next' = out_next + 1 /\ UNCHANGED out_pc
  /\ UNCHANGED <<out_mode, out_results, out_estimator>>
  /\ UNCHANGED notOutputsVars

\* The results are exhausted: the handler returns.
OutputEnd ==
  /\ out_pc = "looping"
  /\ out_next > Len(out_results)
  /\ out_pc' = "done"
  /\ UNCHANGED <<out_mode, out_results, out_estimator, out_next, out_events, out_error>>
  /\ UNCHANGED notOutputsVars

\* The user function has been called; its results are handed to the handler.
OutputsInit ==
  /\ out_mode \in {"process", "finish_bundle"}
  /\ out_results \in OutputResults
  /\ out_estimator \in (IF out_mode = "process" THEN BOOLEAN ELSE {FALSE})
  /\ out_next = 1
  /\ out_events = <<>>
  /\ out_error = "none"
  /\ out_pc = "looping"
  /\ PerWindowInit
  /\ ~is_splittable
  /\ ~has_windowed_inputs
  /\ RunnerIdle
  /\ InvokerIdle
  /\ SignatureIdle
  /\ TrySplitIdle
  /\ ArgsIdle

OutputsNext == OutputStep \/ OutputEnd

OutputsSpec == OutputsInit /\ [][OutputsNext]_vars

\* ------------------------------------------------------------ properties
\* The stop index is never given a value: window index 0 is falsy in
\* _should_process_window_for_sdf, and _try_split needs a stop index to
\* compute one.
StopIndexNeverSet == stop_window_index = None

TrySplitReturned == split_pc = "returned" /\ split_local.op = "try_split"

\* A result made of exactly one whole-window primary and one whole-window
\* residual that meet at the stored stop index, the residual not empty.
WholeWindowPair(r) ==
  /\ r.kind = "split"
  /\ Len(r.primaries) = 1
  /\ Len(r.residuals) = 1
  /\ r.primaries[1].whole
  /\ r.residuals[1].whole
  /\ r.new_stop # None
  /\ r.primaries[1].to = r.new_stop
  /\ r.residuals[1].from = r.new_stop
  /\ r.residuals[1].to > r.new_stop

\* C1: for a window-observing splittable element with two or more windows, a
\* try_split whose fraction lands beyond the current window's remaining work,
\* issued while any non-last window (index 0 included) is being processed,
\* returns a whole-window primary/residual pair and lowers the stored stop
\* index, and the user function never runs for a window at or past the stored
\* stop index.
C1_WholeWindowSplitAtEveryNonLastWindow ==
  /\ (TrySplitReturned /\ split_ctx.beyond) =>
        /\ WholeWindowPair(split_result)
        /\ stop_window_index = split_result.new_stop
  /\ (InUserFn /\ is_splittable /\ stop_window_index # None) =>
        threadsafe_restriction_tracker.win < stop_window_index

\* C2: a try_split that acts while no splittable element is in flight (before
\* the first element, between two elements, after one completed or failed)
\* returns None - no exception, no primary, no residual - and changes none of
\* the stored fields.
C2_TrySplitIdleIsNoOp ==
  [][(~InFlight /\ split_pc' # split_pc /\ split_local'.op = "try_split")
       => /\ UNCHANGED sharedVars
          /\ split_pc' \in {"ts_wait", "ts_cs", "returned"}
          /\ (split_pc' = "returned" => split_result' = ReturnNone)]_vars

\* C2 witness: a try_split has returned None having found no element in
\* flight, after an element was processed.
C2_Witness ==
  /\ TrySplitReturned
  /\ is_splittable
  /\ ~split_ctx.inflight
  /\ seen_element
  /\ split_result = ReturnNone

\* C3: within one invoke_process call the user function is invoked for windows
\* 0, 1, 2, ... in this order with no index skipped, whatever the split thread
\* does meanwhile: the windows processed are a prefix of the window list.
C3_WindowsProcessedInOrder ==
  \A k \in 1..Len(calls) : calls[k] = k - 1

\* C3 witness: the user function runs for the third window of an element
\* while a try_split on this element has returned a split.
C3_Witness ==
  /\ is_splittable
  /\ InUserFn
  /\ Len(calls) = 3
  /\ TrySplitReturned
  /\ split_ctx.inflight
  /\ split_result.kind = "split"

\* C4: every try_split that returns a split for a window-observing element
\* (one processed window by window) stores a stop index s' with
\* current window index < s' <= previous stop index, and the stored stop index
\* never increases during one element.
C4_SplitStoresShrunkStopIndex ==
  [][/\ (/\ split_pc \in {"ts_cs", "ts_sizing"}
         /\ split_pc' = "returned"
         /\ split_result'.kind = "split"
         /\ has_windowed_inputs
         /\ current_windowed_value.windows > 1)
        => /\ stop_window_index' # None
           /\ threadsafe_restriction_tracker.win < stop_window_index'
           /\ stop_window_index' <= current_windowed_value.windows
           /\ (stop_window_index # None => stop_window_index' <= stop_window_index)
     /\ (InFlight /\ InFlight' /\ stop_window_index # None)
        => (stop_window_index' # None /\ stop_window_index' <= stop_window_index)]_vars

\* C5: once invoke_process on a splittable element has ended, on any path,
\* the stored restriction, estimator state, windowed element, tracker and
\* estimator are all cleared.
C5_ClearedAfterInvokeProcess ==
  ~InFlight =>
    /\ restriction = None
    /\ watermark_estimator_state = None
    /\ current_windowed_value = NoneObj
    /\ threadsafe_restriction_tracker = NoneObj
    /\ threadsafe_watermark_estimator = NoneObj

\* C5 witness: invoke_process has ended with an exception (the user function
\* raised) after a tracker had been installed.
C5_Witness ==
  /\ is_splittable
  /\ proc_pc = "done"
  /\ outcome = "user_raised"
  /\ Len(calls) > 0

C7_LockNotHeldInUserFn ==
  /\ InUserFn => splitting_lock # "proc"
  /\ splitting_lock = "proc" => proc_pc \in {"store_cs", "sp_cs", "fin_cs"}

\* C7 witness: the split thread holds the lock while the user function runs.
C7_Witness ==
  /\ InUserFn
  /\ is_splittable
  /\ splitting_lock = "split"

SplitPending == split_pc \notin {"idle", "returned"}
C9_SplitAnswersDuringUserFn ==
  (SplitPending /\ InUserFn) ~> (split_pc = "returned" \/ ~InUserFn)

\* C9 witness: a try_split that found the element in flight has returned a
\* split while the user function is still running.
C9_Witness ==
  /\ InUserFn
  /\ TrySplitReturned
  /\ split_ctx.inflight
  /\ split_result.kind = "split"
  /\ Len(calls) = 1

\* Every size packaged in a residual or a primary.
PackagedSizes ==
  {residuals[k].size : k \in 1..Len(residuals)}
    \cup (IF TrySplitReturned
          THEN {split_result.primaries[k].size : k \in 1..Len(split_result.primaries)}
                 \cup {split_result.residuals[k].size : k \in 1..Len(split_result.residuals)}
          ELSE {})

\* C10 as stated: a negative restriction_size raises a fatal error, no residual
\* or primary is returned, and no output of the element has been routed to a
\* receiver before the error.
C10_NegativeSizeBeforeAnyOutput ==
  /\ \A size \in PackagedSizes : size >= 0
  /\ outcome = "negative_size" =>
       /\ proc_pc \in {"fin_wait", "fin_cs", "done"}
       /\ (proc_pc = "done" => residuals = <<>>)
       /\ ~routed
  /\ (TrySplitReturned /\ split_result.kind = "ValueError") =>
       (split_result.primaries = <<>> /\ split_result.residuals = <<>>)

\* C10 amended: a negative restriction_size raises a fatal error and no
\* residual or primary is returned by that call (none ever carries a negative
\* size); outputs routed before the error stay routed.
C10_NegativeSizeIsFatal ==
  /\ \A size \in PackagedSizes : size >= 0
  /\ outcome = "negative_size" =>
       /\ proc_pc \in {"fin_wait", "fin_cs", "done"}
       /\ (proc_pc = "done" => residuals = <<>>)
  /\ (TrySplitReturned /\ split_result.kind = "ValueError") =>
       (split_result.primaries = <<>> /\ split_result.residuals = <<>>)

\* C10 witness: invoke_process has ended on a negative deferred size after an
\* output of the element was routed and an earlier window left a residual.
C10_Witness ==
  /\ proc_pc = "done"
  /\ outcome = "negative_size"
  /\ routed
  /\ Len(calls) >= 2

\* The tracker's try_split succeeded in the try_split call that has just been
\* sized: split_local then holds the sizes restriction_size answered for the
\* primary and for the residual.
TrackerSplitSized ==
  /\ split_pc = "returned"
  /\ "sizes" \in DOMAIN split_local
  /\ split_local.tracker_split

\* C11: when the tracker's try_split succeeds, the primary's and the
\* residual's sizes are each checked non-negative before anything is packaged:
\* if either is negative try_split raises ValueError, returns no primary and
\* no residual and leaves the stored stop index as it was; otherwise the
\* packaged primary and residual carry exactly these two sizes.
C11_SplitSizesCheckedBeforePackaging ==
  [][(split_pc = "ts_sizing" /\ TrackerSplitSized')
       => IF split_local'.sizes.primary < 0 \/ split_local'.sizes.residual < 0
          THEN /\ split_result'.kind = "ValueError"
               /\ split_result'.primaries = <<>>
               /\ split_result'.residuals = <<>>
               /\ stop_window_index' = stop_window_index
          ELSE split_result'.kind = "split" =>
               /\ ~split_result'.primaries[1].whole
               /\ split_result'.primaries[1].size = split_local'.sizes.primary
               /\ ~split_result'.residuals[1].whole
               /\ split_result'.residuals[1].size = split_local'.sizes.residual]_vars

\* C11 witness: the tracker split, the primary's size was accepted, the
\* residual's size was negative and try_split raised.
C11_Witness ==
  /\ TrackerSplitSized
  /\ split_local.sizes.primary >= 0
  /\ split_local.sizes.residual < 0
  /\ split_result.kind = "ValueError"

\* C12: a sized-restriction element processed to completion, every window's
\* tracker passing check_done and reporting no deferred status, returns an
\* empty list of residuals (with or without concurrent split requests).
C12_NoDeferredNoResiduals ==
  (is_splittable /\ proc_pc = "done" /\ outcome = "ok" /\ ~deferred_seen)
    => residuals = <<>>

\* C12 witness: a two-window element was processed to completion with no
\* deferred status and no split request pending.
C12_Witness ==
  /\ is_splittable
  /\ proc_pc = "done"
  /\ outcome = "ok"
  /\ ~deferred_seen
  /\ Len(calls) >= 2
  /\ split_pc = "idle"

\* C13: current_element_progress returns None when no tracker is installed;
\* for a multi-window window-observing element, at every window index i (0
\* included) with stop index s and tracker progress (c, r) it returns
\* completed = i*(c+r)+c and remaining = (s-i-1)*(c+r)+r; the tracker's
\* progress is read while the lock is held.
C13_ProgressScaledAtEveryWindow ==
  [][(split_pc = "pg_read" /\ split_pc' = "returned")
       => IF split_local.tracker = NoneObj
          THEN split_result' = ReturnNone
          ELSE /\ splitting_lock = "split"
               /\ (split_local.attached /\ has_windowed_inputs
                    /\ current_windowed_value.windows > 1)
                   => /\ split_result'.kind = "progress"
                      /\ \/ split_result'.value = NoneObj
                         \/ split_result'.value =
                              _scale_progress(
                                TrackerProgress(split_local.tracker),
                                split_local.tracker.win,
                                IF split_local.stop_window_index = None
                                THEN current_windowed_value.windows
                                ELSE split_local.stop_window_index)]_vars

\* C14 as stated: for a runner with a step name, an exception its user
\* function raises through any entry point leaves that entry point annotated
\* with the runner's step name; no entry point returns normally after the
\* user function raised.
C14_UserExceptionAnnotatedAtEveryEntry ==
  /\ (exn # NoneObj /\ exn.user /\ Len(frames) < exn.depth
      /\ step_name[exn.depth] # None)
     => (exn.tagged /\ exn.steps = <<step_name[exn.depth]>>)
  /\ delivered.kind = "returned" => exn = NoneObj

\* C15 as stated: an exception that propagates through runners is annotated
\* exactly once, with the identifier of the first runner that intercepted it.
C15_AnnotatedOnceByFirstInterceptor ==
  (exn # NoneObj /\ exn.first # None) => exn.steps = <<exn.first>>

\* C15 amended: an exception is annotated at most once, by the first
\* intercepting runner that has a step name; an annotated exception passes
\* through every later runner unchanged, and runners without a step name
\* leave it as it is.
C15_AnnotatedOnceByFirstNamedInterceptor ==
  exn # NoneObj =>
    /\ Len(exn.steps) <= 1
    /\ exn.tagged <=> exn.steps # <<>>
    /\ exn.first_named # None => exn.steps = <<exn.first_named>>
    /\ exn.first_named = None => exn.steps = <<>>

\* C15 witness: an exception annotated by the second runner of the chain has
\* passed through the first runner, which has a step name too, and reached
\* the harness.
C15_Witness ==
  /\ exn # NoneObj
  /\ exn.depth = 2
  /\ exn.first_named = 2
  /\ exn.steps = <<2>>
  /\ step_name[1] # None
  /\ frames = <<>>
  /\ delivered.kind = "raised"
  /\ delivered.entry = "process"

\* C16 as stated: every scoped resource that was entered is released on all
\* exit paths - bundle-scoped ones once start has raised or finish has ended
\* (returning or raising), setup-scoped ones once setup has raised or
\* teardown has ended.
C16_ScopedResourcesReleased ==
  /\ (delivered.kind # "none" /\ delivered.entry = "finish") => bundle_open = 0
  /\ (delivered.kind = "raised" /\ delivered.entry = "start") => bundle_open = 0
  /\ (delivered.kind # "none" /\ delivered.entry = "teardown") => setup_open = 0
  /\ (delivered.kind = "raised" /\ delivered.entry = "setup") => setup_open = 0

\* The function is window-sensitive: it observes the window (in process or in
\* process_batch), has a side input that is not globally windowed, or is
\* stateful.
WindowSensitive(f) ==
  f.window_param \/ f.batch_window_param \/ ~f.side_inputs_global \/ f.state_param \/ f.timer_param

\* C17: an element with N > 1 windows given to a window-sensitive function
\* makes exactly N user-function calls, the k-th one with the k-th window
\* alone; a function that is not window-sensitive is called exactly once,
\* with the element's windows unchanged.
C17_OneCallPerWindow ==
  (inv_pc = "done" /\ inv_error = "none" /\ inv_input.path = "element") =>
    LET ws == inv_input.input.windows
    IN IF WindowSensitive(fn)
       THEN Len(ws) > 1 =>
              /\ Len(inv_calls) = Len(ws)
              /\ \A k \in 1..Len(ws) : inv_calls[k].windows = <<ws[k]>>
       ELSE /\ Len(inv_calls) = 1
            /\ inv_calls[1].windows = ws

C17_Witness ==
  /\ inv_pc = "done"
  /\ inv_error = "none"
  /\ inv_input.path = "element"
  /\ WindowSensitive(fn)
  /\ Len(inv_input.input.windows) = MaxWindows
  /\ Len(inv_calls) = MaxWindows

\* The input now processed was exploded into single-window copies.
Exploded ==
  /\ inv_pc \in {"calling", "done"}
  /\ inv_input.path \in {"element", "batch"}
  /\ invoker = "PerWindowInvoker"
  /\ has_windowed_inputs
  /\ Len(inv_input.input.windows) # 1

\* C18: every single-window copy of an exploded element or batch has the
\* value, the timestamp and the pane metadata of the original.
C18_CopiesDifferOnlyInWindows ==
  Exploded =>
    \A k \in 1..Len(inv_calls) :
      /\ inv_calls[k].value = inv_input.input.value
      /\ inv_calls[k].timestamp = inv_input.input.timestamp
      /\ inv_calls[k].pane_info = inv_input.input.pane_info

\* The function has no special parameter, side input or state.
PlainFunction(f) ==
  /\ ~f.window_param
  /\ ~f.batch_window_param
  /\ ~f.side_inputs
  /\ ~f.state_param
  /\ ~f.timer_param
  /\ ~f.key_param
  /\ ~f.restriction_param

\* C19: for a function with no special parameters, side inputs or state, the
\* windowed invoker writes to the receivers exactly what the direct invoker
\* writes for the same element: same values, timestamps, windows and tags, in
\* the same order.
C19_DirectAndWindowedDeliverSame ==
  (inv_pc = "done" /\ inv_error = "none" /\ inv_input.path = "element"
     /\ invoker = "PerWindowInvoker" /\ PlainFunction(fn)) =>
    inv_out = SimpleInvokerOutputs(inv_input.input, inv_input.result)

C19_Witness ==
  /\ inv_pc = "done"
  /\ inv_error = "none"
  /\ inv_input.path = "element"
  /\ invoker = "PerWindowInvoker"
  /\ PlainFunction(fn)
  /\ Len(inv_input.input.windows) > 1
  /\ inv_out # <<>>

\* C20: a stateful function with a state parameter is given, for the element
\* (k, v), the state fetched for key k and the window of the call; an
\* element value that is not a pair raises the key-shape error with no
\* get_state or get_timer lookup made and no user-function call made.
C20_StateForKeyAndWindow ==
  (inv_pc \in {"calling", "done"} /\ invoker = "PerWindowInvoker"
     /\ fn.state_param /\ inv_input.path = "element") =>
    IF inv_input.input.value.pair
    THEN /\ inv_error # "ValueError"
         /\ \A k \in 1..Len(inv_calls) :
              /\ Len(inv_calls[k].windows) = 1
              /\ inv_calls[k].state =
                   <<[op |-> "get_state", key |-> inv_input.input.value.key,
                      window |-> inv_calls[k].windows[1]]>>
    ELSE /\ inv_calls = <<>>
         /\ inv_lookups = <<>>
         /\ inv_pc = "done" => inv_error = "ValueError"

C20_Witness ==
  /\ inv_pc = "done"
  /\ inv_error = "none"
  /\ fn.state_param
  /\ inv_input.path = "element"
  /\ inv_input.input.value.pair
  /\ Len(inv_calls) = MaxWindows

\* C21: in element mode a plain result is emitted as f(x) with the
\* timestamp, windows and pane info of the input it was computed from; a
\* WindowedValue or TimestampedValue result keeps its own timestamp and its
\* own (or assigned) window, which appears once per window of the input.
C21_OutputWindowingPropagated ==
  (inv_pc \in {"calling", "done"} /\ inv_input.path = "element") =>
    \A k \in 1..Len(inv_out) :
      LET out == inv_out[k]
          input == inv_calls[k]
          shape == inv_input.result.shape
          own == IF shape = "windowed" THEN ResultWindow ELSE AssignedWindow
      IN /\ out.value = process_method(input.value)
         /\ shape = "plain" =>
              /\ out.timestamp = input.timestamp
              /\ out.windows = input.windows
              /\ out.pane_info = input.pane_info
         /\ shape \in {"windowed", "timestamped"} =>
              /\ out.timestamp = ResultTimestamp
              /\ Len(out.windows) = Len(input.windows)
              /\ \A j \in 1..Len(out.windows) : out.windows[j] = own

C21_Witness ==
  /\ inv_pc = "done"
  /\ inv_error = "none"
  /\ inv_input.path = "element"
  /\ inv_input.result.shape = "windowed"
  /\ Len(inv_calls) = 1
  /\ Len(inv_out) = 1
  /\ Len(inv_out[1].windows) = MaxWindows

\* C22: with a watermark estimator active, every output handed to a receiver,
\* main or tagged, comes right after observe_timestamp calls with that
\* output's timestamp, one per element of a batch.
C22_EstimatorObservesBeforeReceiver ==
  (inv_pc \in {"calling", "done"} /\ inv_input.path = "element" /\ EstimatorActive) =>
    \A j \in 1..Len(inv_events) :
      inv_events[j].op = "receive" =>
        LET n == IF inv_events[j].batch THEN BatchLength ELSE 1
        IN /\ j > n
           /\ \A i \in (j - n)..(j - 1) :
                /\ inv_events[i].op = "observe_timestamp"
                /\ inv_events[i].timestamp = inv_events[j].timestamp

C22_Witness ==
  /\ inv_pc = "done"
  /\ inv_error = "none"
  /\ inv_input.path = "element"
  /\ EstimatorActive
  /\ inv_input.result.tag.tagged
  /\ inv_input.result.shape = "timestamped"
  /\ Len(inv_out) = MaxWindows
  /\ Len(inv_events) = 2 * MaxWindows

\* C23: an untagged result goes to the main receiver and a tagged one to the
\* receiver registered for its tag, and nowhere else; a result whose tag is
\* no string or has no registered receiver raises and reaches no receiver.
C23_ResultsRoutedByTag ==
  (inv_pc = "done" /\ inv_input.path = "element") =>
    LET tag == inv_input.result.tag
        bad == tag.tagged /\ (~tag.is_str \/ tag.name \notin TaggedReceivers)
    IN IF bad
       THEN /\ inv_out = <<>>
            /\ inv_calls # <<>> =>
                 inv_error = (IF tag.is_str THEN "KeyError" ELSE "TypeError")
       ELSE /\ inv_error \notin {"KeyError", "TypeError"}
            /\ inv_input.result # NoResults => Len(inv_out) = Len(inv_calls)
            /\ \A k \in 1..Len(inv_out) :
                 inv_out[k].receiver = (IF tag.tagged THEN tag.name ELSE "main")

C23_Witness ==
  /\ inv_pc = "done"
  /\ inv_error = "none"
  /\ inv_input.path = "element"
  /\ inv_input.result.tag.tagged
  /\ Len(inv_out) = MaxWindows
  /\ inv_out[1].receiver = "out"

RECURSIVE FirstOffending(_)
FirstOffending(defaults) ==
  IF defaults = <<>> THEN "none"
  ELSE IF Head(defaults) \in {"WindowParam", "TimestampParam", "PaneInfoParam", "constant"}
  THEN FirstOffending(Tail(defaults))
  ELSE Head(defaults)

\* C25: a DoFn whose process_batch declares a key, state, timer or element
\* parameter (the first parameter validation stops at, nothing declared
\* twice) is rejected with the unsupported-parameter error when its
\* signature is built, one with another unsupported kind with a validation
\* error; no runner exists for it and its process_batch is never called.
C25_PerKeyBatchParamsUnsupported ==
  (sig_fn # NoneObj /\ sig_pc # "new") =>
    LET first == FirstOffending(sig_fn.process_batch)
        twice == sig_fn.process_duplicates \/ HasDuplicates(sig_fn.process_batch)
    IN first # "none" =>
         /\ sig_pc = "rejected"
         /\ ~sig_batch_calls
         /\ ~twice =>
              sig_error = (IF first \in {"KeyParam", "StateParam", "TimerParam", "ElementParam"}
                           THEN "NotImplementedError" ELSE "ValueError")

\* C26: whenever the user function is running for window i of a multi-window
\* window-observing splittable element, the stored current window index is i
\* (i = 0 included), the stored stop index is set - to the element's number
\* of windows unless a split during this element lowered it - and the
\* current window index is below the stop index.
C26_WindowIndicesWhileProcessing ==
  (InUserFn /\ is_splittable /\ PerWindowLoop) =>
    /\ current_window_index = window_i
    /\ stop_window_index # None
    /\ stop_window_index <= windowed_value.windows
    /\ current_window_index < stop_window_index

\* C27: every read and every write of the lock-protected split state
\* (restriction, watermark-estimator state, current windowed value,
\* installed tracker, installed estimator, current window index, stop
\* index), by the processing thread or by the split/progress thread, happens
\* while that thread holds the splitting lock.
C27_AllAccessesUnderLock ==
  /\ (ProcReads(proc_pc) \cup ProcWrites(proc_pc) # {}) => splitting_lock = "proc"
  /\ (SplitReads(split_pc) \cup SplitWrites(split_pc) # {}) => splitting_lock = "split"

\* C27 as the code has it: every write of the split state, and every read
\* of it by the split/progress thread, happens while the thread holds the
\* splitting lock; the processing thread reads the stop index only under the
\* lock, and reads without it only fields that no other thread assigns.
C27_WritesAndSplitReadsUnderLock ==
  /\ ProcWrites(proc_pc) # {} => splitting_lock = "proc"
  /\ (SplitReads(split_pc) \cup SplitWrites(split_pc) # {}) => splitting_lock = "split"
  /\ (ProcReads(proc_pc) # {} /\ splitting_lock # "proc") =>
        ProcReads(proc_pc) \cap SplitWritten = {}

\* The processing thread reads the installed tracker for check_done while
\* try_split holds the lock and reads the same field.
C27_Witness ==
  /\ proc_pc = "check_done"
  /\ split_pc = "ts_cs"
  /\ splitting_lock = "split"

\* The residuals are in window order, at most one for a window, each for a
\* window the user function was called for.
ResidualsInWindowOrder ==
  /\ \A k \in 1..Len(residuals) : \E c \in 1..Len(calls) :
        residuals[k].from = (IF PerWindowLoop THEN calls[c] ELSE 0)
  /\ \A k \in 1..Len(residuals) - 1 : residuals[k].from < residuals[k + 1].from

\* One step of a splittable invoke_process after the user function returned.
C28_Step ==
  /\ (InUserFn /\ is_splittable /\ proc_pc' # "user_fn" /\ outcome' = outcome) =>
        /\ proc_pc' = "check_done"
        /\ residuals' = residuals
  /\ (proc_pc = "check_done" /\ proc_pc' # "check_done" /\ outcome' # "check_done_raised") =>
        /\ threadsafe_restriction_tracker.completed = threadsafe_restriction_tracker.total
        /\ (proc_pc' = "sizing") <=> threadsafe_restriction_tracker.deferred
        /\ residuals' = residuals
  /\ (proc_pc = "sizing" /\ proc_pc' # "sizing" /\ outcome' # "negative_size") =>
        /\ Len(residuals') = Len(residuals) + 1
        /\ SubSeq(residuals', 1, Len(residuals)) = residuals
        /\ LET residual == residuals'[Len(residuals')]
           IN /\ residual.from = (IF PerWindowLoop THEN window_i ELSE 0)
              /\ residual.restriction = threadsafe_restriction_tracker.rest
              /\ residual.restriction.from = threadsafe_restriction_tracker.completed
              /\ residual.size >= 0
              /\ residual.est = threadsafe_watermark_estimator.wm
              /\ residual.wm = threadsafe_watermark_estimator.wm
              /\ residual.deferred_timestamp = DeferTime
  /\ (is_splittable /\ proc_pc \notin {"sizing", "fin_cs", "done"}) => residuals' = residuals

\* C28: after the user function returns for a window, check_done runs first
\* and then, iff the tracker reports a deferred status, exactly one residual
\* is produced for that window with the deferred restriction, its
\* non-negative size, the estimator state and watermark read at that moment
\* and the deferred timestamp; invoke_process returns these residuals in
\* window order, at most one for a processed window.
C28_OneResidualPerDeferredWindow ==
  /\ [][C28_Step]_vars
  /\ []((is_splittable /\ proc_pc = "done" /\ outcome = "ok") => ResidualsInWindowOrder)

\* invoke_process returns two residuals, one for each window of its element.
C28_Witness ==
  /\ is_splittable
  /\ proc_pc = "done"
  /\ outcome = "ok"
  /\ PerWindowLoop
  /\ Len(residuals) = 2
  /\ residuals[1].from = 0

\* _try_split was given a window index and a stop index and has returned
\* or raised.
TrySplitApplied ==
  /\ ts_args # NoneObj
  /\ ts_result # NoResult
  /\ ts_args.window_index # None
  /\ ts_args.stop_window_index # None

\* The fraction times the scaled remaining work is at least the remaining
\* work of the current window.
FractionBeyondWindow ==
  LET progress == IF ts_args.tracker_progress = NoneObj
                  THEN [completed |-> 0, remaining |-> 1]
                  ELSE ts_args.tracker_progress
      scaled == _scale_progress(progress, ts_args.window_index,
                                ts_args.stop_window_index)
  IN scaled.remaining * ts_args.fraction[1] >= progress.remaining * ts_args.fraction[2]

\* C29: in _try_split at window index i with stop index s, i # s-1, when
\* the fraction times the scaled remaining work is at least the current
\* window's remaining work (and the whole-window size is not negative), the
\* tracker is not asked to split and the result is one primary over
\* windows[0:b] and one residual over windows[b:s] with i+1 <= b <= s-1,
\* and the new stop index is b.
C29_WholeWindowSplitBeyondCurrentWindow ==
  (/\ TrySplitApplied
   /\ ts_args.window_index # ts_args.stop_window_index - 1
   /\ FractionBeyondWindow
   /\ SizeOk(ts_args.sizes.whole)) =>
    /\ ~ts_result.asked
    /\ ts_result.kind = "split"
    /\ Len(ts_result.primaries) = 1
    /\ Len(ts_result.residuals) = 1
    /\ LET b == ts_result.new_stop
       IN /\ ts_args.window_index + 1 <= b
          /\ b <= ts_args.stop_window_index - 1
          /\ ts_result.primaries[1].whole
          /\ ts_result.primaries[1].from = 0
          /\ ts_result.primaries[1].to = b
          /\ ts_result.residuals[1].whole
          /\ ts_result.residuals[1].from = b
          /\ ts_result.residuals[1].to = ts_args.stop_window_index

\* The whole-window primaries and residuals a split of window i is to come
\* with.
WindowsBefore(i) == IF i > 0 THEN <<[from |-> 0, to |-> i]>> ELSE <<>>
WindowsAfter(i, s) == IF i + 1 < s THEN <<[from |-> i + 1, to |-> s]>> ELSE <<>>
WindowsOf(parts) == [k \in 1..Len(parts) |-> [from |-> parts[k].from, to |-> parts[k].to]]
Wholes(parts) == [k \in 1..Len(parts) |-> parts[k].whole]

\* C30: in _try_split for a window-observing element at window index i with
\* stop index s, when the tracker's split succeeds (and no size is negative)
\* the result holds a primary and a residual for window i alone, a
\* whole-window primary over windows[0:i] iff i > 0, a whole-window residual
\* over windows[i+1:s] iff i+1 < s, and the new stop index is i+1; no window
\* outside windows[0:s] is in any result.
C30_SplitOfCurrentWindow ==
  (/\ TrySplitApplied
   /\ ts_result.asked
   /\ ts_args.tracker_split
   /\ \A k \in {"whole", "primary", "residual"} : SizeOk(ts_args.sizes[k])) =>
    LET i == ts_args.window_index
        s == ts_args.stop_window_index
    IN /\ ts_result.kind = "split"
       /\ ts_result.new_stop = i + 1
       /\ WindowsOf(ts_result.primaries) = <<[from |-> i, to |-> i + 1]>> \o WindowsBefore(i)
       /\ WindowsOf(ts_result.residuals) = <<[from |-> i, to |-> i + 1]>> \o WindowsAfter(i, s)
       /\ Wholes(ts_result.primaries) = <<FALSE>> \o [k \in 1..Len(WindowsBefore(i)) |-> TRUE]
       /\ Wholes(ts_result.residuals) = <<FALSE>> \o [k \in 1..Len(WindowsAfter(i, s)) |-> TRUE]
       /\ \A part \in {ts_result.primaries[k] : k \in 1..Len(ts_result.primaries)}
                      \cup {ts_result.residuals[k] : k \in 1..Len(ts_result.residuals)} :
            0 <= part.from /\ part.from < part.to /\ part.to <= s

\* The tracker splits the middle window of three: both whole-window parts
\* accompany the split of the current window.
C30_Witness ==
  /\ TrySplitApplied
  /\ ts_args.window_index = 1
  /\ ts_args.stop_window_index = 3
  /\ ts_result.asked
  /\ ts_args.tracker_split
  /\ ts_result.kind = "split"
  /\ Len(ts_result.primaries) = 2
  /\ Len(ts_result.residuals) = 2

\* _try_split has returned a split of the current restriction.
TrackerSplitReturned ==
  /\ ts_args # NoneObj
  /\ ts_result # NoResult
  /\ ts_result.kind = "split"
  /\ ts_result.asked
  /\ ts_args.tracker_split

\* C31: the watermark and estimator state on a split residual are the
\* values read from the estimator before the tracker's try_split was
\* invoked, whatever the estimator has advanced to since; the split primary
\* carries the estimator state the element started processing with, and
\* whole-window residuals carry no watermark.
C31_ResidualCarriesSnapshot ==
  (ts_args # NoneObj /\ ts_result # NoResult /\ ts_result.kind = "split") =>
    /\ TrackerSplitReturned =>
         /\ ~ts_result.residuals[1].whole
         /\ ts_result.residuals[1].wm = ts_args.read
         /\ ts_result.residuals[1].est = ts_args.read
         /\ ~ts_result.primaries[1].whole
         /\ ts_result.primaries[1].est = InitialEstimatorState
    /\ \A k \in 1..Len(ts_result.residuals) :
         ts_result.residuals[k].whole => ts_result.residuals[k].wm = None

\* The estimator has advanced since _try_split read it; the split residual
\* has the earlier reading, and a whole-window residual accompanies it.
C31_Witness ==
  /\ TrackerSplitReturned
  /\ ts_args.read = InitialEstimatorState
  /\ ts_args.estimator # ts_args.read
  /\ Len(ts_result.residuals) = 2
  /\ ts_result.residuals[2].whole

\* C32: when the tracker declines to split (and no size is negative), a
\* try_split whose fraction fell within a non-last current window i returns
\* the whole-window split at boundary i+1 - primary windows[0:i+1], residual
\* windows[i+1:s] - and stores stop index i+1; one made at the last window
\* or on an element that is not processed window by window returns no split.
C32_DeclinedSplitFallsBackToBoundary ==
  (TrySplitReturned /\ split_result.kind # "ValueError") =>
    /\ (split_ctx.within /\ split_ctx.declined) =>
          /\ WholeWindowPair(split_result)
          /\ split_result.new_stop = split_ctx.window + 1
          /\ stop_window_index = split_result.new_stop
    /\ (split_ctx.single /\ split_ctx.declined) => split_result.kind = "none"

\* C33: at every call of a sequence of calls on one invoker the process
\* method receives the positional and keyword arguments a rebuild from the
\* template would give it for that call - every placeholder position holds
\* this call's element, key, timestamp and pane info - and the filled
\* template is cached only when the function is not window-sensitive.
C33_ArgumentCachingIsTransparent ==
  arg_call # NoneObj =>
    /\ arg_given = Rebuild(arg_cfg, arg_call.input)
    /\ has_cached_window_args => ~HasWindowedInputs(ArgFn(arg_cfg))

\* A call served from the cached template of an invoker with a side input,
\* an element position and keyword arguments.
C33_Witness ==
  /\ arg_call # NoneObj
  /\ arg_call.from_cache
  /\ arg_cfg.template = <<"side", "ElementParam">>
  /\ arg_cfg.splittable
  /\ arg_cfg.input_kwargs
  /\ arg_given.args[2] = arg_call.input.value

\* A try_split that found a tracker and no current window index returns.
ReturnsWithoutWindowIndex ==
  /\ split_pc \in {"ts_cs", "ts_sizing"}
  /\ split_pc' = "returned"
  /\ threadsafe_restriction_tracker # NoneObj
  /\ current_window_index = None

\* C34: when no current window index is recorded, a try_split in which the
\* tracker splits (and no size is negative) returns exactly one primary and
\* one residual, each over all the windows of the element, and leaves the
\* stop index as it was; if the tracker declines it returns no split.
C34_Step ==
  ReturnsWithoutWindowIndex =>
    /\ split_result'.kind \in {"split", "none", "ValueError"}
    /\ split_result'.kind = "none" <=> split_ctx'.declined
    /\ split_result'.kind = "split" =>
         /\ Len(split_result'.primaries) = 1
         /\ Len(split_result'.residuals) = 1
         /\ \A part \in {split_result'.primaries[1], split_result'.residuals[1]} :
              /\ ~part.whole
              /\ part.from = 0
              /\ part.to = current_windowed_value.windows
    /\ stop_window_index' = stop_window_index

C34_SplitOfAllWindows == [][C34_Step]_vars

\* A split returned for an element of several windows whose DoFn does not
\* observe windows: one primary and one residual over both windows.
C34_Witness ==
  /\ TrySplitReturned
  /\ ~has_windowed_inputs
  /\ split_ctx.inflight
  /\ split_ctx.single
  /\ split_result.kind = "split"
  /\ Len(split_result.primaries) = 1
  /\ split_result.primaries[1].to = 2
  /\ split_result.residuals[1].to = 2
  /\ stop_window_index = None

\* How many times the user function ran for window k of the element, and
\* how many of the whole-window residuals returned cover it.
TimesProcessed(k) == Cardinality({j \in DOMAIN calls : calls[j] = k})
TimesCovered(k) ==
  Cardinality({j \in DOMAIN whole_returned :
                 whole_returned[j].from <= k /\ k < whole_returned[j].to})

C36_InstalledTogether ==
  splitting_lock # "proc" =>
    /\ threadsafe_restriction_tracker # NoneObj <=> threadsafe_watermark_estimator # NoneObj
    /\ threadsafe_restriction_tracker # NoneObj =>
         /\ current_windowed_value # NoneObj
         /\ restriction # None
         /\ InFlight
         /\ current_windowed_value = windowed_value
         /\ threadsafe_watermark_estimator.win = threadsafe_restriction_tracker.win
         /\ threadsafe_restriction_tracker.win \in {window_i, window_i - 1}

\* try_split holds the lock and finds the tracker of the second window.
C36_Witness ==
  /\ split_pc = "ts_cs"
  /\ splitting_lock = "split"
  /\ threadsafe_restriction_tracker # NoneObj
  /\ threadsafe_restriction_tracker.win = 1
  /\ threadsafe_watermark_estimator.win = 1
  /\ current_windowed_value.windows = 2

\* A step of a try_split call that may still return no split: the call is
\* made, the lock is taken, or no split is returned.
NoSplitStep ==
  /\ split_pc' # split_pc
  /\ split_local'.op = "try_split"
  /\ \/ split_pc' \in {"ts_wait", "ts_cs"}
     \/ split_pc' = "returned" /\ split_result'.kind = "none"

\* C37: a try_split that returns no split - the invoker is not splittable,
\* no tracker is installed, or the tracker declined and no window boundary
\* is available - leaves the stop index, the current window index, the
\* restriction, the windowed value, the tracker and the estimator as they
\* were: none of its steps changes them, and it sizes nothing on its way.
C37_Step ==
  NoSplitStep =>
    /\ UNCHANGED <<stop_window_index, current_window_index, restriction, current_windowed_value, threadsafe_restriction_tracker, threadsafe_watermark_estimator>>
    /\ split_pc' = "returned" => split_pc \in {"idle", "ts_cs"}

C37_NoSplitChangesNothing == [][C37_Step]_vars

\* The tracker of an element in process declined, no window boundary was
\* available, and try_split returned no split.
C37_Witness ==
  /\ TrySplitReturned
  /\ is_splittable
  /\ split_ctx.inflight
  /\ split_ctx.declined
  /\ split_result.kind = "none"
  /\ threadsafe_restriction_tracker # NoneObj

\* A result whose routing fails: its production raises, its tag is no
\* string or has no receiver, or it is a finish_bundle result that is no
\* WindowedValue.
FailsToRoute(mode, result) ==
  \/ result = Raised
  \/ result.tag.tagged /\ (~result.tag.is_str \/ result.tag.name \notin TaggedReceivers)
  \/ mode = "finish_bundle" /\ result.shape # "windowed"

\* The timestamp a delivered result of that shape has.
DeliveredTimestamp(mode, result) ==
  IF mode = "process" /\ result.shape = "plain" THEN InputTimestamp ELSE ResultTimestamp

\* The deliveries made are those of the results taken so far, one each, in
\* the order of production; a loop that failed did so on a result that
\* fails to route, a loop that ended has taken every result.
DeliveredInOrder ==
  out_pc # "idle" =>
    /\ Len(Delivered(out_events)) = out_next - 1
    /\ \A j \in 1..(out_next - 1) :
         /\ ~FailsToRoute(out_mode, out_results[j])
         /\ Delivered(out_events)[j].receiver = ReceiverOf(out_results[j].tag)
         /\ Delivered(out_events)[j].timestamp = DeliveredTimestamp(out_mode, out_results[j])
    /\ out_pc = "failed" <=> out_error # "none"
    /\ out_pc = "failed" =>
         /\ out_next <= Len(out_results)
         /\ FailsToRoute(out_mode, out_results[out_next])
    /\ out_pc = "done" => out_next = Len(out_results) + 1

\* Deliveries are made one at a time and never taken back, and none is made
\* once a result has failed.
DeliveredOneAtATime ==
  LET before == Delivered(out_events)
      after == Delivered(out_events')
  IN /\ Len(after) \in {Len(before), Len(before) + 1}
     /\ SubSeq(after, 1, Len(before)) = before
     /\ out_error # "none" => out_events' = out_events

\* C38: the results of one user-function call are delivered to receivers one
\* at a time in the order the function produces them; when the k-th result
\* fails (unknown or non-string tag, shape error, or the function raising
\* while producing it) the k-1 results before it have been delivered and
\* stay delivered, and no later result is delivered.
C38_ResultsDeliveredInOrder ==
  [][DeliveredOneAtATime]_vars /\ []DeliveredInOrder

\* The second of two results failed on an unknown tag after the first, a
\* differently routed one, had been delivered.
C38_Witness ==
  /\ out_pc = "failed"
  /\ out_mode = "process"
  /\ out_error = "KeyError"
  /\ out_next = 2
  /\ Len(out_results) = 2
  /\ Len(Delivered(out_events)) = 1
  /\ Delivered(out_events)[1].receiver = "out"

\* No exception has been raised since the DoFn instance was made: the
\* harness has not seen one, and none is propagating.
ExceptionFree ==
  /\ phase \in {"new", "set_up", "in_bundle"}
  /\ exn = NoneObj
  /\ delivered.kind # "raised"

\* The scoped resources entered and not exited, of each scope.
OpenContexts(setup_scoped, bundle_scoped) ==
  setup_open = setup_scoped /\ bundle_open = bundle_scoped

\* C39: on an exception-free lifecycle sequence setup, (start, process*,
\* finish)*, teardown, the setup-scoped resources are all entered, once,
\* before the user's setup runs and exited, once, after the user's teardown;
\* the bundle-scoped ones are entered before the user's start_bundle runs
\* and exited after finish_bundle's outputs are dispatched; none is exited
\* twice, and while a process call runs all of them are entered and not
\* exited.
C39_ScopedResourcesEnteredAndExitedOnce ==
  ExceptionFree =>
    /\ setup_open \in {0, MaxContexts}
    /\ bundle_open \in {0, MaxContexts}
    /\ (frames = <<>> /\ delivered = NoDelivery) =>
         CASE phase = "new" -> OpenContexts(0, 0)
           [] phase = "set_up" -> OpenContexts(MaxContexts, 0)
           [] phase = "in_bundle" -> OpenContexts(MaxContexts, MaxContexts)
    /\ frames # <<>> =>
         LET call == frames[1] IN
         CASE call.entry = "setup" ->
                OpenContexts(IF call.stage = "user" THEN MaxContexts ELSE 0, 0)
           [] call.entry = "start" ->
                OpenContexts(MaxContexts, IF call.stage = "user" THEN MaxContexts ELSE 0)
           [] call.entry = "finish" -> OpenContexts(MaxContexts, MaxContexts)
           [] call.entry = "teardown" -> OpenContexts(MaxContexts, 0)
           [] OTHER -> OpenContexts(MaxContexts, MaxContexts)
    /\ delivered.kind = "returned" =>
         CASE delivered.entry = "setup" -> OpenContexts(MaxContexts, 0)
           [] delivered.entry = "finish" -> OpenContexts(MaxContexts, 0)
           [] delivered.entry = "teardown" -> OpenContexts(0, 0)
           [] OTHER -> OpenContexts(MaxContexts, MaxContexts)

\* A process call of an instance that has raised nothing routes an output
\* to the next runner.
C39_Witness ==
  /\ ExceptionFree
  /\ Len(frames) = 2
  /\ frames[1].entry = "process"
  /\ OpenContexts(MaxContexts, MaxContexts)
  /\ MaxContexts > 0

\* _try_split was applied at a non-last window with sizes that are not
\* negative.
NonLastWindowApplied ==
  /\ TrySplitApplied
  /\ ts_args.window_index # ts_args.stop_window_index - 1
  /\ SizeOk(ts_args.sizes.whole)
  /\ SizeOk(ts_args.sizes.primary)
  /\ SizeOk(ts_args.sizes.residual)

\* C40: at a non-last window of a window-observing element, for every
\* tracker progress with completed >= 0 and remaining >= 0 (remaining = 0,
\* total = 0 and progress unavailable included) and every fraction in
\* [0, 1], _try_split returns a split or no split - no arithmetic error -
\* and the fraction it passes on to the tracker lies in [0, 1).
C40_NoArithmeticError ==
  NonLastWindowApplied =>
    /\ ts_result.kind \in {"split", "none"}
    /\ ts_result.asked =>
         /\ 0 <= ts_result.tfrac[1]
         /\ ts_result.tfrac[1] < ts_result.tfrac[2]

====
